---- MODULE Spec2Model ----
(***************************************************************************)
(* A.U.R.A rule-based decision engines.                                    *)
(*                                                                         *)
(* RuleBasedDecisionEngine (src/src/models/decision_engine/rules_engine.py)*)
(* and RetentionEngine (.../retention_engine.py): weighted multi-factor    *)
(* risk scoring, thresholding and recommendation selection.                *)
(*                                                                         *)
(* Numbers.  health scores and day counts are compared against integer     *)
(* bounds only and are modelled as integers.  engagement scores are        *)
(* compared against 0.3 / 0.7 / 1.0 only and are modelled in hundredths.   *)
(* Weights and scores are IEEE-754 doubles that the code ADDS and then     *)
(* compares against thresholds, so rounding matters (0.3+0.2+0.2+0.1 is    *)
(* 0.7999999999999999 in Python).  A double x is modelled exactly by the   *)
(* pair <<k, d>> with                                                      *)
(*            x = (k + d / 2^57) / 20                                      *)
(* where k is the nearest multiple of 0.05 and d the (small) distance from *)
(* it in units of 2^-57/20.  FAdd is round-to-nearest-even addition on     *)
(* that representation.                                                    *)
(***************************************************************************)
EXTENDS Integers, Sequences, FiniteSets, TLC

VARIABLES
    rules,           \* RuleBasedDecisionEngine.rules
    thresholds,      \* RuleBasedDecisionEngine.thresholds
    pc,              \* position of the caller: idle / analyzed / recommended
    now,             \* wall clock read by datetime.now()
    record,          \* customer_data argument of the last call
    analysis,        \* result of the last analyze_customer_risk call
    recommendation,  \* result of the last generate_recommendations call
    retention_rules,       \* RetentionEngine.rules
    retention_thresholds,  \* RetentionEngine.thresholds
    strategies,            \* RetentionEngine.strategies
    client,          \* client_data argument of the last call
    client_analysis, \* result of the last analyze_client_risk call
    customer_frame,  \* customer_data argument of process_customer_batch
    results,         \* DataFrame returned by process_customer_batch
    summary,         \* result of get_decision_summary
    client_frame,      \* client_data argument of process_batch_analysis
    analysis_results,  \* DataFrame returned by process_batch_analysis
    analysis_summary,  \* result of get_analysis_summary
    settings,            \* the AURASettings object of the application
    validation_results,  \* result of AURASettings.validate_settings
    api_customer_data,   \* the global customer_data of aura_api
    data_loaded,         \* the global data_loaded of aura_api
    api_results          \* what process_customer_batch of aura_api returned

rulesEngine == <<rules, thresholds>>
rulesCalls == <<record, analysis, recommendation>>
retentionEngine == <<retention_rules, retention_thresholds, strategies>>
retentionCalls == <<client, client_analysis>>
rulesBatch == <<customer_frame, results, summary>>
retentionBatch == <<client_frame, analysis_results, analysis_summary>>

configuration == <<settings, validation_results>>
apiGlobals == <<api_customer_data, data_loaded>>

vars ==
    <<rulesEngine, retentionEngine, pc, now, rulesCalls, retentionCalls,
      rulesBatch, retentionBatch, configuration, apiGlobals, api_results>>

(***************************************************************************)
(* Bounds of the model.                                                    *)
(***************************************************************************)
FarBelow == 1000          \* an adversarial health score far below 0 is -FarBelow
FarAbove == 1000000000    \* an adversarial health score far above 100
MaxClock == 1             \* wall clock readings are 0..MaxClock

(***************************************************************************)
(* IEEE-754 double arithmetic on the <<k, d>> representation.              *)
(***************************************************************************)
\* double literals of the source, as <<k, d>>
F0_0  == <<0, 0>>
F0_05 == <<1, 8>>
F0_1  == <<2, 16>>
F0_2  == <<4, 32>>
F0_3  == <<6, -32>>
F0_4  == <<8, 64>>
F0_45 == <<9, 32>>
F0_5  == <<10, 0>>
F0_6  == <<12, -64>>
F0_7  == <<14, -128>>
F0_8  == <<16, 128>>
F0_9  == <<18, 64>>
F1_0  == <<20, 0>>

\* x >= y and x > y on doubles (|d| stays far below 2^57, so the order is
\* lexicographic)
FGe(x, y) == x[1] > y[1] \/ (x[1] = y[1] /\ x[2] >= y[2])
FGt(x, y) == x[1] > y[1] \/ (x[1] = y[1] /\ x[2] > y[2])
FLe(x, y) == FGe(y, x)

\* exponent e with 2^e <= (k + d/2^57)/20 < 2^(e+1), for a positive value
Binade(k, d) ==
    IF k > 160 \/ (k = 160 /\ d >= 0) THEN 3
    ELSE IF k > 80 \/ (k = 80 /\ d >= 0) THEN 2
    ELSE IF k > 40 \/ (k = 40 /\ d >= 0) THEN 1
    ELSE IF k > 20 \/ (k = 20 /\ d >= 0) THEN 0
    ELSE IF k > 10 \/ (k = 10 /\ d >= 0) THEN -1
    ELSE IF k > 5 \/ (k = 5 /\ d >= 0) THEN -2
    ELSE IF k >= 3 THEN -3
    ELSE IF k >= 2 THEN -4
    ELSE -5

\* 2^n for 0 <= n <= 8
Pow2(n) == CASE n = 0 -> 1 [] n = 1 -> 2 [] n = 2 -> 4 [] n = 3 -> 8
             [] n = 4 -> 16 [] n = 5 -> 32 [] n = 6 -> 64 [] n = 7 -> 128
             [] n = 8 -> 256

\* 2^n mod 20 and 2^n mod 40, for n >= 3
Pow2Mod20(n) == CASE n % 4 = 0 -> 16 [] n % 4 = 1 -> 12
                  [] n % 4 = 2 -> 4  [] n % 4 = 3 -> 8
Pow2Mod40(n) == CASE n % 4 = 0 -> 16 [] n % 4 = 1 -> 32
                  [] n % 4 = 2 -> 24 [] n % 4 = 3 -> 8

\* a + b in double precision, round to nearest, ties to even.
\* The exact sum is N = k*2^57 + d; one ulp of its binade is M; R = N mod M.
FAdd(a, b) ==
    LET k == a[1] + b[1]
        d == a[2] + b[2]
        e == Binade(k, d)
        P == Pow2(e + 5)
        M == 20 * P
        R == (P * ((Pow2Mod20(52 - e) * k) % 20) + d) % M
        lo == d - R
        T == (k * Pow2Mod40(52 - e) + (lo \div P)) % 40
    IN  IF k = 0 /\ d = 0 THEN <<0, 0>>
        ELSE IF 2 * R < M THEN <<k, lo>>
        ELSE IF 2 * R > M THEN <<k, lo + M>>
        ELSE IF T = 0 THEN <<k, lo>>
        ELSE <<k, lo + M>>

\* Python's sum(): left fold of + from 0
RECURSIVE FSumFrom(_, _)
FSumFrom(acc, s) ==
    IF s = <<>> THEN acc ELSE FSumFrom(FAdd(acc, Head(s)), Tail(s))
FSum(s) == FSumFrom(F0_0, s)

\* half an ulp of the double x, in units of 2^-57/20
HalfUlp(x) == 10 * Pow2(Binade(x[1], x[2]) + 5)

\* the last bit of the significand of the double x is 0
EvenSignificand(x) ==
    LET e == Binade(x[1], x[2])
    IN  (x[1] * Pow2Mod40(52 - e) + (x[2] \div Pow2(e + 5))) % 40 = 0

\* total / n > x in double precision, for doubles total and x and a count n:
\* the quotient is rounded to nearest, ties to even, so it exceeds x when
\* the exact quotient lies beyond the midpoint of x and the next double
FMeanGt(total, n, x) ==
    LET midpoint == << n * x[1], n * (x[2] + HalfUlp(x)) >>
    IN  IF EvenSignificand(x) THEN FGt(total, midpoint)
        ELSE FGe(total, midpoint)

\* total / n < x in double precision, for x not a power of two
FMeanLt(total, n, x) ==
    LET midpoint == << n * x[1], n * (x[2] - HalfUlp(x)) >>
    IN  IF EvenSignificand(x) THEN FGt(midpoint, total)
        ELSE FGe(midpoint, total)

(***************************************************************************)
(* Values of the fields of a customer record.                              *)
(*   num    a number                                                       *)
(*   nan    float('nan'): every comparison with it is False                *)
(*   str    a string                                                       *)
(*   bad    a value of a type the operation applied to it raises on (a     *)
(*          string in a numeric field, a float or None as churn label)     *)
(*   absent the key is not in the record, so .get() returns its default    *)
(***************************************************************************)
Num(n)    == [t |-> "num", v |-> n]
NaN       == [t |-> "nan", v |-> 0]
BadNum    == [t |-> "bad", v |-> 0]
AbsentNum == [t |-> "absent", v |-> 0]
Str(s)    == [t |-> "str", v |-> s]
BadStr    == [t |-> "bad", v |-> ""]
AbsentStr == [t |-> "absent", v |-> ""]

\* dict.get / Series.get with a default
Get(data, key, default) ==
    IF data[key].t = "absent" THEN default ELSE data[key]

\* str.lower() on the labels that occur
Lower(s) ==
    CASE s = "High" -> "high"
      [] s = "HIGH" -> "high"
      [] s = "Medium" -> "medium"
      [] s = "Low" -> "low"
      [] s = "Unknown" -> "unknown"
      [] OTHER -> s

(***************************************************************************)
(* RuleBasedDecisionEngine: tables                                         *)
(***************************************************************************)
\* a variant with RetentionEngine's heavier weight (0.3) on low engagement
initialize_rules_heavy ==
    [ health_score_rules |->
        << [level |-> "critical", min |-> 0,  max |-> 30,  weight |-> F0_3],
           [level |-> "low",      min |-> 30, max |-> 50,  weight |-> F0_2],
           [level |-> "medium",   min |-> 50, max |-> 70,  weight |-> F0_1],
           [level |-> "high",     min |-> 70, max |-> 100, weight |-> F0_0] >>,
      engagement_rules |->
        << [level |-> "low",    min |-> 0,  max |-> 30,  weight |-> F0_3],
           [level |-> "medium", min |-> 30, max |-> 70,  weight |-> F0_1],
           [level |-> "high",   min |-> 70, max |-> 100, weight |-> F0_0] >>,
      churn_risk_rules |->
        << [level |-> "high",   weight |-> F0_4],
           [level |-> "medium", weight |-> F0_2],
           [level |-> "low",    weight |-> F0_0] >>,
      days_since_engagement_rules |->
        << [level |-> "critical", min |-> 60, weight |-> F0_1],
           [level |-> "warning",  min |-> 30, max |-> 60, weight |-> F0_05],
           [level |-> "normal",   min |-> 0,  max |-> 30, weight |-> F0_0] >> ]

\* an ordered dict is a sequence of entries in insertion order
initialize_rules ==
    [ health_score_rules |->
        << [level |-> "critical", min |-> 0,  max |-> 30,  weight |-> F0_3],
           [level |-> "low",      min |-> 30, max |-> 50,  weight |-> F0_2],
           [level |-> "medium",   min |-> 50, max |-> 70,  weight |-> F0_1],
           [level |-> "high",     min |-> 70, max |-> 100, weight |-> F0_0] >>,
      engagement_rules |->
        << [level |-> "low",    min |-> 0,  max |-> 30,  weight |-> F0_2],
           [level |-> "medium", min |-> 30, max |-> 70,  weight |-> F0_1],
           [level |-> "high",   min |-> 70, max |-> 100, weight |-> F0_0] >>,
      churn_risk_rules |->
        << [level |-> "high",   weight |-> F0_4],
           [level |-> "medium", weight |-> F0_2],
           [level |-> "low",    weight |-> F0_0] >>,
      days_since_engagement_rules |->
        << [level |-> "critical", min |-> 60, weight |-> F0_1],
           [level |-> "warning",  min |-> 30, max |-> 60, weight |-> F0_05],
           [level |-> "normal",   min |-> 0,  max |-> 30, weight |-> F0_0] >> ]

initialize_thresholds ==
    [ critical_risk |-> F0_7,
      high_risk     |-> F0_5,
      medium_risk   |-> F0_3,
      low_risk      |-> F0_0 ]

(***************************************************************************)
(* RuleBasedDecisionEngine: scoring                                        *)
(***************************************************************************)
\* index of the first rule with rule.min <= v < rule.max, 0 when no rule
\* matches (the for ... break loops of _calculate_risk_factors)
RECURSIVE FirstMatchFrom(_, _, _)
FirstMatchFrom(table, v, i) ==
    IF i > Len(table) THEN 0
    ELSE IF table[i].min <= v /\ v < table[i].max THEN i
    ELSE FirstMatchFrom(table, v, i + 1)
FirstMatch(table, v) == FirstMatchFrom(table, v, 1)

\* the entry a bucket loop adds to risk_factors: none when the value is NaN
\* or lies in no bucket
BucketFactor(table, name, x) ==
    IF x.t = "num" /\ FirstMatch(table, x.v) > 0
    THEN << [name |-> name, weight |-> table[FirstMatch(table, x.v)].weight] >>
    ELSE << >>

\* rules['churn_risk_rules'].get(label, {}).get('weight', 0.0)
ChurnWeight(table, label) ==
    IF \E i \in 1..Len(table) : table[i].level = label
    THEN table[CHOOSE i \in 1..Len(table) : table[i].level = label].weight
    ELSE F0_0

\* a variant whose warning bucket excludes its lower bound
DaysWeight_exclusive(days) ==
    IF days.t = "num" /\ days.v >= 60 THEN F0_1
    ELSE IF days.t = "num" /\ days.v > 30 THEN F0_05
    ELSE F0_0

\* the if / elif / else on days_since_engagement
DaysWeight(days) ==
    IF days.t = "num" /\ days.v >= 60 THEN F0_1
    ELSE IF days.t = "num" /\ days.v >= 30 THEN F0_05
    ELSE F0_0

\* the exception _calculate_risk_factors raises, "" when it returns
calculate_risk_factors_raises(health_score, churn_risk, engagement, days) ==
    IF health_score.t = "bad" THEN "TypeError"
    ELSE IF engagement.t = "bad" THEN "TypeError"
    ELSE IF churn_risk.t = "bad" THEN "AttributeError"
    ELSE IF days.t = "bad" THEN "TypeError"
    ELSE ""

\* a variant that looks the label up without lower-casing it
calculate_risk_factors_nolower(rs, health_score, churn_risk, engagement, days) ==
    BucketFactor(rs.health_score_rules, "health_score", health_score)
    \o BucketFactor(rs.engagement_rules, "engagement", engagement)
    \o << [name |-> "churn_risk",
           weight |-> ChurnWeight(rs.churn_risk_rules, churn_risk.v)] >>
    \o << [name |-> "days_since_engagement", weight |-> DaysWeight(days)] >>

\* risk_factors, a dict in insertion order: a sequence of name/weight entries
calculate_risk_factors(rs, health_score, churn_risk, engagement, days) ==
    BucketFactor(rs.health_score_rules, "health_score", health_score)
    \o BucketFactor(rs.engagement_rules, "engagement", engagement)
    \o << [name |-> "churn_risk",
           weight |-> ChurnWeight(rs.churn_risk_rules, Lower(churn_risk.v))] >>
    \o << [name |-> "days_since_engagement", weight |-> DaysWeight(days)] >>

\* risk_factors.values()
Values(risk_factors) ==
    [i \in 1..Len(risk_factors) |-> risk_factors[i].weight]

\* a variant with the High and Medium branches exchanged
determine_risk_level_swapped(th, risk_score) ==
    IF FGe(risk_score, th.critical_risk) THEN "Critical"
    ELSE IF FGe(risk_score, th.high_risk) THEN "Medium"
    ELSE IF FGe(risk_score, th.medium_risk) THEN "High"
    ELSE "Low"

determine_risk_level(th, risk_score) ==
    IF FGe(risk_score, th.critical_risk) THEN "Critical"
    ELSE IF FGe(risk_score, th.high_risk) THEN "High"
    ELSE IF FGe(risk_score, th.medium_risk) THEN "Medium"
    ELSE "Low"

calculate_confidence(risk_factors) ==
    LET total_weight == FSum(Values(risk_factors))
    IN  IF FGe(total_weight, F0_8) THEN "High"
        ELSE IF FGe(total_weight, F0_5) THEN "Medium"
        ELSE "Low"

\* the dict of the except branch
AnalysisFailure(e) ==
    [ risk_level |-> "Unknown",
      composite_risk_score |-> F0_0,
      risk_factors |-> << >>,
      confidence |-> "Low",
      error |-> e ]

\* a variant that ages the record by the clock: a month of days per tick
analyze_customer_risk_aging(rs, th, customer_data, clock) ==
    IF ~customer_data.is_mapping THEN AnalysisFailure("AttributeError")
    ELSE
    LET health_score == Get(customer_data, "current_health_score", Num(50))
        churn_risk == Get(customer_data, "churn_risk_level", Str("Medium"))
        engagement == Get(customer_data, "engagement_score", Num(50))
        days == Get(customer_data, "days_since_last_engagement", Num(30))
        days_since_engagement ==
            IF days.t = "num" THEN Num(days.v + 30 * clock) ELSE days
        raised == calculate_risk_factors_raises(health_score, churn_risk,
                      engagement, days_since_engagement)
        risk_factors == calculate_risk_factors(rs, health_score, churn_risk,
                            engagement, days_since_engagement)
        composite_risk_score == FSum(Values(risk_factors))
    IN  IF raised # "" THEN AnalysisFailure(raised)
        ELSE [ risk_level |-> determine_risk_level(th, composite_risk_score),
               composite_risk_score |-> composite_risk_score,
               risk_factors |-> risk_factors,
               confidence |-> calculate_confidence(risk_factors),
               analysis_timestamp |-> clock ]

analyze_customer_risk(rs, th, customer_data, clock) ==
    IF ~customer_data.is_mapping THEN AnalysisFailure("AttributeError")
    ELSE
    LET health_score == Get(customer_data, "current_health_score", Num(50))
        churn_risk == Get(customer_data, "churn_risk_level", Str("Medium"))
        engagement == Get(customer_data, "engagement_score", Num(50))
        days_since_engagement ==
            Get(customer_data, "days_since_last_engagement", Num(30))
        raised == calculate_risk_factors_raises(health_score, churn_risk,
                      engagement, days_since_engagement)
        risk_factors == calculate_risk_factors(rs, health_score, churn_risk,
                            engagement, days_since_engagement)
        composite_risk_score == FSum(Values(risk_factors))
    IN  IF raised # "" THEN AnalysisFailure(raised)
        ELSE [ risk_level |-> determine_risk_level(th, composite_risk_score),
               composite_risk_score |-> composite_risk_score,
               risk_factors |-> risk_factors,
               confidence |-> calculate_confidence(risk_factors),
               analysis_timestamp |-> clock ]

(***************************************************************************)
(* RuleBasedDecisionEngine: recommendations                                *)
(***************************************************************************)
get_risk_based_recommendations(risk_level, risk_score) ==
    IF risk_level = "Critical" THEN
        [ recommended_actions |->
            << "Immediate executive escalation",
               "Personal retention call within 24 hours",
               "Custom retention offer with significant discount",
               "Assign dedicated customer success manager" >>,
          resources_required |->
            << "Senior Customer Success Manager", "Executive sponsor",
               "Retention specialist", "Marketing team for campaigns" >>,
          success_metrics |->
            << "Retention rate improvement", "Customer satisfaction score",
               "Revenue recovery" >> ]
    ELSE IF risk_level = "High" THEN
        [ recommended_actions |->
            << "Schedule retention call within 48 hours",
               "Provide personalized retention offer",
               "Assign dedicated account manager",
               "Monitor engagement metrics daily" >>,
          resources_required |->
            << "Customer Success Manager", "Retention specialist",
               "Account manager" >>,
          success_metrics |->
            << "Engagement score improvement", "Health score increase",
               "Retention probability" >> ]
    ELSE
        [ recommended_actions |->
            << "Regular check-in calls", "Proactive support outreach",
               "Value demonstration sessions" >>,
          resources_required |-> << "Customer Success Manager" >>,
          success_metrics |->
            << "Customer satisfaction", "Engagement metrics" >> ]

get_customer_specific_recommendations(customer_data) ==
    LET segment == Get(customer_data, "segment", Str("SMB"))
        plan == Get(customer_data, "subscription_plan", Str("Basic"))
    IN  (IF segment = Str("High-Value")
         THEN << "Executive relationship building", "Premium support access" >>
         ELSE IF segment = Str("Medium-Value")
         THEN << "Regular business reviews", "Feature adoption training" >>
         ELSE << "Self-service resources", "Community engagement" >>)
        \o
        (IF plan \in {Str("Premium"), Str("Enterprise")}
         THEN << "Advanced feature training", "API integration support" >>
         ELSE << >>)

\* a variant that does not tell Critical from High
determine_priority_flat(risk_level, risk_score) ==
    IF risk_level \in {"Critical", "High"} THEN "High"
    ELSE IF risk_level = "Medium" THEN "Medium"
    ELSE "Low"

determine_priority(risk_level, risk_score) ==
    IF risk_level \in {"Critical", "High"}
    THEN (IF risk_level = "Critical" THEN "Critical" ELSE "High")
    ELSE IF risk_level = "Medium" THEN "Medium"
    ELSE "Low"

\* a variant that gives Low risk the timeline of the General Monitoring
\* strategy of RetentionEngine
determine_timeline_ongoing(risk_level) ==
    IF risk_level = "Critical" THEN "Immediate (24-48 hours)"
    ELSE IF risk_level = "High" THEN "Urgent (1-2 weeks)"
    ELSE IF risk_level = "Medium" THEN "Standard (2-4 weeks)"
    ELSE "Ongoing"

determine_timeline(risk_level) ==
    IF risk_level = "Critical" THEN "Immediate (24-48 hours)"
    ELSE IF risk_level = "High" THEN "Urgent (1-2 weeks)"
    ELSE IF risk_level = "Medium" THEN "Standard (2-4 weeks)"
    ELSE "Routine (1-2 months)"

predict_outcome(risk_level, risk_score) ==
    IF risk_level = "Low" THEN "High retention probability"
    ELSE IF risk_level = "Medium" THEN "Moderate retention probability"
    ELSE IF risk_level = "High" THEN "Low retention probability"
    ELSE "Very low retention probability"

\* a variant whose except branch returns no actions, as the except branch
\* of RetentionEngine.analyze_client_risk does
RecommendationFailure_empty(e) ==
    [ priority |-> "Medium",
      timeline |-> "2-4 weeks",
      expected_outcome |-> "Moderate retention probability",
      recommended_actions |-> << >>,
      resources_required |-> << "Customer Success Manager" >>,
      error |-> e ]

\* the dict of the except branch
RecommendationFailure(e) ==
    [ priority |-> "Medium",
      timeline |-> "2-4 weeks",
      expected_outcome |-> "Moderate retention probability",
      recommended_actions |-> << "Schedule customer success call" >>,
      resources_required |-> << "Customer Success Manager" >>,
      error |-> e ]

\* risk_analysis is a dict returned by analyze_customer_risk, so both of its
\* .get() calls find their key
generate_recommendations(risk_analysis, customer_data) ==
    LET risk_level == risk_analysis.risk_level
        risk_score == risk_analysis.composite_risk_score
        recommendations ==
            get_risk_based_recommendations(risk_level, risk_score)
        customer_specific ==
            get_customer_specific_recommendations(customer_data)
    IN  IF ~customer_data.is_mapping
        THEN RecommendationFailure("AttributeError")
        ELSE [ priority |-> determine_priority(risk_level, risk_score),
               timeline |-> determine_timeline(risk_level),
               expected_outcome |-> predict_outcome(risk_level, risk_score),
               recommended_actions |->
                   recommendations.recommended_actions \o customer_specific,
               resources_required |-> recommendations.resources_required,
               success_metrics |-> recommendations.success_metrics ]

(***************************************************************************)
(* RuleBasedDecisionEngine: batches.  A DataFrame is the sequence of its   *)
(* rows; every row that iterrows() yields is a mapping.                    *)
(***************************************************************************)
Frame(rows) == [is_frame |-> TRUE, rows |-> rows]

\* pd.DataFrame(): no rows and no columns
EmptyFrame == Frame(<< >>)

\* an argument that is no DataFrame, such as None
NotAFrame == [is_frame |-> FALSE, rows |-> << >>]

\* the same rows under an index whose labels are no integers, such as
\* strings: df.set_index('customer_id', drop=False)
IndexedByLabel(frame) ==
    [ is_frame |-> TRUE, rows |-> frame.rows, index |-> "labels" ]

\* the labels iterrows() yields are integers: the default RangeIndex
IntegerIndex(frame) == "index" \notin DOMAIN frame

\* results.columns: the keys of the result records
Columns(frame) ==
    IF frame.rows = << >> THEN {} ELSE DOMAIN frame.rows[1]

\* the body of the loop of process_customer_batch for the row at index idx.
\* A row without the columns customer_id and name takes their defaults,
\* f'CUST_{idx:04d}' and f'Customer {idx}', idx < 10.
customer_result(rs, th, customer, idx, clock) ==
    LET risk_analysis == analyze_customer_risk(rs, th, customer, clock)
        recommendations == generate_recommendations(risk_analysis, customer)
    IN  [ customer_id |->
              IF "customer_id" \in DOMAIN customer THEN customer.customer_id
              ELSE "CUST_000" \o ToString(idx),
          name |->
              IF "name" \in DOMAIN customer THEN customer.name
              ELSE "Customer " \o ToString(idx),
          risk_level |-> risk_analysis.risk_level,
          risk_score |-> risk_analysis.composite_risk_score,
          health_score |-> Get(customer, "current_health_score", Num(0)),
          churn_risk |-> Get(customer, "churn_risk_level", Str("Unknown")),
          engagement_score |-> Get(customer, "engagement_score", Num(0)),
          priority |-> recommendations.priority,
          timeline |-> recommendations.timeline,
          recommended_actions_count |->
              Len(recommendations.recommended_actions) ]

\* iterating over an argument that is no DataFrame raises, and the except
\* branch returns an empty DataFrame.  So does the first pass over a frame
\* whose index labels are no integers: the default f'CUST_{idx:04d}' is
\* formatted whether or not the row has a customer_id, and the format code
\* d raises ValueError for a label that is no integer.
process_customer_batch(rs, th, customer_data, clock) ==
    IF ~customer_data.is_frame THEN EmptyFrame
    ELSE IF customer_data.rows # << >> /\ ~IntegerIndex(customer_data)
    THEN EmptyFrame
    ELSE Frame([ i \in 1..Len(customer_data.rows) |->
                   customer_result(rs, th, customer_data.rows[i], i - 1,
                                   clock) ])

\* Series.value_counts().to_dict() of a column
value_counts(rows, column) ==
    [ v \in { rows[i][column] : i \in DOMAIN rows } |->
        Cardinality({ i \in DOMAIN rows : rows[i][column] = v }) ]

\* len(results[results['risk_level'].isin(['High', 'Critical'])])
HighRiskCount(rows) ==
    Cardinality({ i \in DOMAIN rows :
                    rows[i].risk_level \in {"High", "Critical"} })

\* len(results[results['priority'] == 'Critical'])
CriticalCount(rows) ==
    Cardinality({ i \in DOMAIN rows : rows[i].priority = "Critical" })

\* the sum that results['risk_score'].mean() divides by the row count
RiskScoreSum(rows) == FSum([ i \in DOMAIN rows |-> rows[i].risk_score ])

\* a variant that reports the critical priority count first
generate_insights_critical_first(results_frame) ==
    LET rows == results_frame.rows
        high_risk_count == HighRiskCount(rows)
        critical_count == CriticalCount(rows)
    IN  (IF critical_count > 0
         THEN << ToString(critical_count)
                   \o " customers need critical priority intervention" >>
         ELSE << >>)
        \o
        (IF high_risk_count > 0
         THEN << ToString(high_risk_count)
                   \o " customers require immediate attention" >>
         ELSE << >>)
        \o
        (IF FMeanGt(RiskScoreSum(rows), Len(rows), F0_5)
         THEN << "Overall customer health is concerning - consider proactive retention strategies" >>
         ELSE IF FMeanLt(RiskScoreSum(rows), Len(rows), F0_3)
         THEN << "Customer health is generally good - focus on growth and expansion" >>
         ELSE << >>)

generate_insights(results_frame) ==
    LET rows == results_frame.rows
        high_risk_count == HighRiskCount(rows)
        critical_count == CriticalCount(rows)
    IN  (IF high_risk_count > 0
         THEN << ToString(high_risk_count)
                   \o " customers require immediate attention" >>
         ELSE << >>)
        \o
        (IF FMeanGt(RiskScoreSum(rows), Len(rows), F0_5)
         THEN << "Overall customer health is concerning - consider proactive retention strategies" >>
         ELSE IF FMeanLt(RiskScoreSum(rows), Len(rows), F0_3)
         THEN << "Customer health is generally good - focus on growth and expansion" >>
         ELSE << >>)
        \o
        (IF critical_count > 0
         THEN << ToString(critical_count)
                   \o " customers need critical priority intervention" >>
         ELSE << >>)

\* average_risk_score is kept as the sum and the count it is the quotient of
get_decision_summary(results_frame) ==
    IF ~results_frame.is_frame
    THEN [ error |-> "Error generating summary" ]
    ELSE IF results_frame.rows = << >>
    THEN [ error |-> "No results to summarize" ]
    ELSE LET rows == results_frame.rows
         IN  [ total_customers |-> Len(rows),
               high_risk_customers |-> HighRiskCount(rows),
               critical_priority_customers |-> CriticalCount(rows),
               average_risk_score |->
                   [sum |-> RiskScoreSum(rows), count |-> Len(rows)],
               risk_distribution |-> value_counts(rows, "risk_level"),
               priority_distribution |-> value_counts(rows, "priority"),
               insights |-> generate_insights(results_frame) ]

(***************************************************************************)
(* RetentionEngine: tables                                                 *)
(***************************************************************************)
\* float('inf') as the upper bound of a bucket: above every ticket count
Infinity == 2147483647

retention_initialize_rules ==
    [ health_score_rules |->
        << [level |-> "critical", min |-> 0,  max |-> 30,  weight |-> F0_4,
            action |-> "immediate_intervention"],
           [level |-> "low",      min |-> 30, max |-> 50,  weight |-> F0_3,
            action |-> "proactive_outreach"],
           [level |-> "medium",   min |-> 50, max |-> 70,  weight |-> F0_2,
            action |-> "monitor_closely"],
           [level |-> "high",     min |-> 70, max |-> 100, weight |-> F0_0,
            action |-> "maintain_relationship"] >>,
      engagement_rules |->
        << [level |-> "low",    min |-> 0,  max |-> 30,  weight |-> F0_3,
            action |-> "engagement_boost"],
           [level |-> "medium", min |-> 30, max |-> 70,  weight |-> F0_1,
            action |-> "monitor_engagement"],
           [level |-> "high",   min |-> 70, max |-> 100, weight |-> F0_0,
            action |-> "maintain_engagement"] >>,
      support_rules |->
        << [level |-> "high_volume",   min |-> 5, max |-> Infinity,
            weight |-> F0_3, action |-> "support_optimization"],
           [level |-> "medium_volume", min |-> 2, max |-> 5,
            weight |-> F0_1, action |-> "monitor_support"],
           [level |-> "low_volume",    min |-> 0, max |-> 2,
            weight |-> F0_0, action |-> "maintain_support"] >>,
      \* revenue thresholds in hundredths: -0.1, 0.05, 0.1
      revenue_rules |->
        [ declining |-> [threshold |-> -10, weight |-> F0_4,
                         action |-> "revenue_recovery"],
          stable    |-> [threshold |-> 5, weight |-> F0_1,
                         action |-> "monitor_revenue"],
          growing   |-> [threshold |-> 10, weight |-> F0_0,
                         action |-> "maintain_growth"] ],
      nps_rules |->
        << [level |-> "detractor", min |-> 0, max |-> 6,  weight |-> F0_3,
            action |-> "satisfaction_improvement"],
           [level |-> "passive",   min |-> 7, max |-> 8,  weight |-> F0_1,
            action |-> "engagement_boost"],
           [level |-> "promoter",  min |-> 9, max |-> 10, weight |-> F0_0,
            action |-> "maintain_satisfaction"] >> ]

retention_initialize_thresholds ==
    [ critical_risk |-> F0_8,
      high_risk |-> F0_6,
      medium_risk |-> F0_4,
      low_risk |-> F0_2,
      critical_priority |-> F0_9,
      high_priority |-> F0_7,
      medium_priority |-> F0_5 ]

\* the strategy table, keyed by strategy key
initialize_strategies ==
    [ immediate_intervention |->
        [ name |-> "Immediate Intervention",
          description |-> "Urgent action required to prevent churn",
          actions |-> << "Schedule executive call within 24 hours",
                         "Offer personalized retention package",
                         "Assign dedicated customer success manager",
                         "Provide immediate technical support" >>,
          timeline |-> "24-48 hours",
          resources |-> << "Executive team", "Customer success manager",
                           "Technical support" >>,
          expected_outcome |-> "Prevent immediate churn" ],
      proactive_outreach |->
        [ name |-> "Proactive Outreach",
          description |-> "Proactive engagement to improve client health",
          actions |-> << "Schedule health check call",
                         "Provide additional training resources",
                         "Offer feature adoption consultation",
                         "Create personalized success plan" >>,
          timeline |-> "1-2 weeks",
          resources |-> << "Customer success manager", "Training team" >>,
          expected_outcome |-> "Improve health score by 20-30%" ],
      engagement_boost |->
        [ name |-> "Engagement Boost",
          description |-> "Increase client engagement and feature adoption",
          actions |-> << "Send personalized feature recommendations",
                         "Schedule product training sessions",
                         "Create engagement campaigns",
                         "Provide usage analytics and insights" >>,
          timeline |-> "2-4 weeks",
          resources |-> << "Product team", "Marketing team" >>,
          expected_outcome |-> "Increase engagement by 40-50%" ],
      support_optimization |->
        [ name |-> "Support Optimization",
          description |->
              "Address underlying issues causing high support volume",
          actions |-> << "Conduct support ticket analysis",
                         "Provide proactive issue resolution",
                         "Offer additional training on problem areas",
                         "Implement preventive measures" >>,
          timeline |-> "1-3 weeks",
          resources |-> << "Support team", "Technical team" >>,
          expected_outcome |-> "Reduce support tickets by 50%" ],
      revenue_recovery |->
        [ name |-> "Revenue Recovery",
          description |-> "Address declining revenue trends",
          actions |-> << "Analyze revenue decline causes",
                         "Offer value demonstration sessions",
                         "Provide ROI analysis and case studies",
                         "Create retention incentives" >>,
          timeline |-> "2-4 weeks",
          resources |-> << "Sales team", "Customer success manager" >>,
          expected_outcome |-> "Stabilize or improve revenue trends" ] ]

(***************************************************************************)
(* RetentionEngine: scoring                                                *)
(***************************************************************************)
\* the if / elif / else on revenue_growth; NaN fails both comparisons
RevenueFactor(rs, revenue_growth) ==
    IF revenue_growth.t = "num"
         /\ revenue_growth.v < rs.revenue_rules.declining.threshold
    THEN << [name |-> "revenue_decline",
             weight |-> rs.revenue_rules.declining.weight] >>
    ELSE IF revenue_growth.t = "num"
              /\ revenue_growth.v < rs.revenue_rules.stable.threshold
    THEN << [name |-> "revenue_stable",
             weight |-> rs.revenue_rules.stable.weight] >>
    ELSE << [name |-> "revenue_growth",
             weight |-> rs.revenue_rules.growing.weight] >>

retention_calculate_risk_factors(rs, health, engagement, tickets, nps, growth) ==
    BucketFactor(rs.health_score_rules, "health_score", health)
    \o BucketFactor(rs.engagement_rules, "engagement", engagement)
    \o BucketFactor(rs.support_rules, "support_tickets", tickets)
    \o BucketFactor(rs.nps_rules, "nps_score", nps)
    \o RevenueFactor(rs, growth)

retention_determine_risk_level(th, risk_score) ==
    IF FGe(risk_score, th.critical_risk) THEN "Critical"
    ELSE IF FGe(risk_score, th.high_risk) THEN "High"
    ELSE IF FGe(risk_score, th.medium_risk) THEN "Medium"
    ELSE IF FGe(risk_score, th.low_risk) THEN "Low"
    ELSE "Very Low"

\* client_value is total_lifetime_revenue after .get() defaulting
calculate_priority(th, risk_score, client_value) ==
    LET base_priority ==
            IF FGe(risk_score, th.critical_priority) THEN "Critical"
            ELSE IF FGe(risk_score, th.high_priority) THEN "High"
            ELSE IF FGe(risk_score, th.medium_priority) THEN "Medium"
            ELSE "Low"
    IN  IF client_value.t = "num" /\ client_value.v > 100000
        THEN (IF base_priority = "Medium" THEN "High"
              ELSE IF base_priority = "Low" THEN "Medium"
              ELSE base_priority)
        ELSE base_priority

get_strategy_for_factor(factor) ==
    CASE factor = "health_score" -> "proactive_outreach"
      [] factor = "engagement" -> "engagement_boost"
      [] factor = "support_tickets" -> "support_optimization"
      [] factor = "revenue_decline" -> "revenue_recovery"
      [] factor = "nps_score" -> "satisfaction_improvement"
      [] OTHER -> "proactive_outreach"

\* sorted(risk_factors.items(), key=weight, reverse=True): a stable sort, so
\* entries of equal weight keep their insertion order
RECURSIVE InsertByWeight(_, _)
InsertByWeight(sorted, x) ==
    IF sorted = << >> THEN << x >>
    ELSE IF FGe(Head(sorted).weight, x.weight)
         THEN << Head(sorted) >> \o InsertByWeight(Tail(sorted), x)
         ELSE << x >> \o sorted
RECURSIVE SortByWeightFrom(_, _)
SortByWeightFrom(sorted, rest) ==
    IF rest = << >> THEN sorted
    ELSE SortByWeightFrom(InsertByWeight(sorted, Head(rest)), Tail(rest))
SortByWeight(risk_factors) == SortByWeightFrom(<< >>, risk_factors)

GeneralMonitoring ==
    [ name |-> "General Monitoring",
      description |-> "Continue monitoring client health and engagement",
      actions |-> << "Regular health check calls", "Monitor usage patterns" >>,
      timeline |-> "Ongoing",
      resources |-> << "Customer success manager" >>,
      expected_outcome |-> "Maintain current health level" ]

\* the entry one sorted factor adds to recommendations, if any
StrategyFor(st, f) ==
    LET strategy_key == get_strategy_for_factor(f.name)
    IN  IF FGt(f.weight, F0_2) /\ strategy_key \in DOMAIN st
        THEN << [ name |-> st[strategy_key].name,
                  description |-> st[strategy_key].description,
                  actions |-> st[strategy_key].actions,
                  timeline |-> st[strategy_key].timeline,
                  resources |-> st[strategy_key].resources,
                  expected_outcome |-> st[strategy_key].expected_outcome,
                  trigger_factor |-> f.name,
                  risk_weight |-> f.weight ] >>
        ELSE << >>

RECURSIVE StrategiesFor(_, _)
StrategiesFor(st, sorted_factors) ==
    IF sorted_factors = << >> THEN << >>
    ELSE StrategyFor(st, Head(sorted_factors))
         \o StrategiesFor(st, Tail(sorted_factors))

\* a variant without the general monitoring fallback
retention_generate_recommendations_bare(st, risk_factors) ==
    StrategiesFor(st, SortByWeight(risk_factors))

retention_generate_recommendations(st, risk_factors) ==
    LET recommendations == StrategiesFor(st, SortByWeight(risk_factors))
    IN  IF recommendations = << >> THEN << GeneralMonitoring >>
        ELSE recommendations

\* a variant in which strategy is the table entry itself, not a copy: the
\* trigger_factor and risk_weight of the call are written into the table
strategies_after_recommendations_aliased(st, risk_factors) ==
    LET sorted_factors == SortByWeight(risk_factors)
        Hits(key) ==
            { i \in DOMAIN sorted_factors :
                /\ FGt(sorted_factors[i].weight, F0_2)
                /\ get_strategy_for_factor(sorted_factors[i].name) = key }
        Last(key) == CHOOSE i \in Hits(key) : \A j \in Hits(key) : j <= i
    IN  [ key \in DOMAIN st |->
            IF Hits(key) = {} THEN st[key]
            ELSE [ trigger_factor |-> sorted_factors[Last(key)].name,
                   risk_weight |-> sorted_factors[Last(key)].weight ]
                 @@ st[key] ]

\* self.strategies after _generate_recommendations(risk_factors): strategy
\* is a .copy() of the table entry, so setting its trigger_factor and
\* risk_weight leaves the table as it was
strategies_after_recommendations(st, risk_factors) == st

\* the dict of the except branch
ClientAnalysisFailure(e) ==
    [ risk_level |-> "Unknown",
      composite_risk_score |-> F0_0,
      risk_factors |-> << >>,
      priority |-> "Medium",
      recommendations |-> << >>,
      error |-> e ]

analyze_client_risk(rs, th, st, client_data, clock) ==
    IF ~client_data.is_mapping THEN ClientAnalysisFailure("AttributeError")
    ELSE
    LET health_score == Get(client_data, "current_health_score", Num(65))
        engagement_score == Get(client_data, "engagement_score", Num(60))
        support_tickets == Get(client_data, "support_tickets_30d", Num(0))
        nps_score == Get(client_data, "nps_score", Num(7))
        revenue_growth == Get(client_data, "revenue_growth_90d", Num(0))
        client_value == Get(client_data, "total_lifetime_revenue", Num(0))
        risk_factors ==
            retention_calculate_risk_factors(rs, health_score,
                engagement_score, support_tickets, nps_score, revenue_growth)
        composite_risk_score == FSum(Values(risk_factors))
    IN  IF "bad" \in { health_score.t, engagement_score.t, support_tickets.t,
                       nps_score.t, revenue_growth.t, client_value.t }
        THEN ClientAnalysisFailure("TypeError")
        ELSE [ risk_level |->
                   retention_determine_risk_level(th, composite_risk_score),
               composite_risk_score |-> composite_risk_score,
               risk_factors |-> risk_factors,
               priority |->
                   calculate_priority(th, composite_risk_score, client_value),
               recommendations |->
                   retention_generate_recommendations(st, risk_factors),
               analysis_timestamp |-> clock ]

(***************************************************************************)
(* RetentionEngine: batches                                                *)
(***************************************************************************)
\* the body of the loop of process_batch_analysis for the row at index idx;
\* clock is the reading of datetime.now() during that pass.  The rows of
\* the model carry no customer_id and no name.
client_result(rs, th, st, client_data, idx, clock) ==
    LET client_risk == analyze_client_risk(rs, th, st, client_data, clock)
    IN  [ customer_id |-> "CUST_000" \o ToString(idx),
          name |-> "Client " \o ToString(idx),
          risk_level |-> client_risk.risk_level,
          risk_score |-> client_risk.composite_risk_score,
          priority |-> client_risk.priority,
          health_score |-> Get(client_data, "current_health_score", Num(0)),
          engagement_score |-> Get(client_data, "engagement_score", Num(0)),
          recommendations_count |-> Len(client_risk.recommendations),
          analysis_timestamp |->
              IF "analysis_timestamp" \in DOMAIN client_risk
              THEN client_risk.analysis_timestamp ELSE clock ]

\* self.strategies after the passes over these rows
RECURSIVE strategies_after_batch(_, _, _, _)
strategies_after_batch(rs, th, st, rows) ==
    IF rows = << >> THEN st
    ELSE strategies_after_batch(rs, th,
             strategies_after_recommendations(st,
                 analyze_client_risk(rs, th, st, Head(rows), 0).risk_factors),
             Tail(rows))

\* clocks[i] is the clock reading of the pass over row i; the default
\* f'CUST_{idx:04d}' raises as in process_customer_batch
process_batch_analysis(rs, th, st, client_data, clocks) ==
    IF ~client_data.is_frame THEN EmptyFrame
    ELSE IF client_data.rows # << >> /\ ~IntegerIndex(client_data)
    THEN EmptyFrame
    ELSE Frame([ i \in 1..Len(client_data.rows) |->
                   client_result(rs, th, st, client_data.rows[i], i - 1,
                                 clocks[i]) ])

\* the keys of results.groupby('client_segment'), in sorted order; rows
\* whose segment is missing belong to no group
SegmentOrder == << "Enterprise", "High-Value", "Medium-Value", "SMB" >>

GroupRows(rows, segment) ==
    SelectSeq(rows, LAMBDA row : row.client_segment = Str(segment))

\* segment_risks.idxmax(): the first key, in sorted order, of the greatest
\* group mean.  Two means are compared as exact quotients: the rounding of
\* the divisions is left out.
highest_risk_segment(rows) ==
    LET keys == { i \in DOMAIN SegmentOrder :
                    GroupRows(rows, SegmentOrder[i]) # << >> }
        total(i) == RiskScoreSum(GroupRows(rows, SegmentOrder[i]))
        count(i) == Len(GroupRows(rows, SegmentOrder[i]))
        Above(i, j) ==
            FGt(<< total(i)[1] * count(j), total(i)[2] * count(j) >>,
                << total(j)[1] * count(i), total(j)[2] * count(i) >>)
    IN  SegmentOrder[CHOOSE i \in keys :
                        \A j \in keys \ {i} :
                            Above(i, j) \/ (~Above(j, i) /\ i < j)]

\* the avg risk of the segment insight, formatted with :.2f in the source,
\* is left out of the insight
generate_analysis_insights(results_frame) ==
    LET rows == results_frame.rows
        high_risk_count == HighRiskCount(rows)
        critical_count == CriticalCount(rows)
    IN  (IF high_risk_count > 0
         THEN << ToString(high_risk_count)
                   \o " clients require immediate attention" >>
         ELSE << >>)
        \o
        (IF FMeanGt(RiskScoreSum(rows), Len(rows), F0_6)
         THEN << "Overall client health is concerning - consider proactive retention strategies" >>
         ELSE IF FMeanLt(RiskScoreSum(rows), Len(rows), F0_3)
         THEN << "Client health is generally good - focus on growth and expansion" >>
         ELSE << >>)
        \o
        (IF critical_count > 0
         THEN << ToString(critical_count)
                   \o " clients need critical priority intervention" >>
         ELSE << >>)
        \o
        (IF "client_segment" \in Columns(results_frame)
         THEN << "Highest risk segment: " \o highest_risk_segment(rows) >>
         ELSE << >>)

\* idxmax() raises when no row has a segment, which the except branch of
\* get_analysis_summary catches
get_analysis_summary(results_frame) ==
    IF ~results_frame.is_frame
    THEN [ error |-> "Error generating summary" ]
    ELSE IF results_frame.rows = << >>
    THEN [ error |-> "No analysis results to summarize" ]
    ELSE IF /\ "client_segment" \in Columns(results_frame)
            /\ \A i \in DOMAIN results_frame.rows :
                  results_frame.rows[i].client_segment.t # "str"
    THEN [ error |-> "Error generating summary" ]
    ELSE LET rows == results_frame.rows
         IN  [ total_clients |-> Len(rows),
               high_risk_clients |-> HighRiskCount(rows),
               critical_priority_clients |-> CriticalCount(rows),
               average_risk_score |->
                   [sum |-> RiskScoreSum(rows), count |-> Len(rows)],
               risk_distribution |-> value_counts(rows, "risk_level"),
               priority_distribution |-> value_counts(rows, "priority"),
               insights |-> generate_analysis_insights(results_frame) ]

(***************************************************************************)
(* aura_api: the inline batch scoring of process_customer_batch            *)
(***************************************************************************)
\* the terms the loop adds to risk_score for one row, in the order it adds
\* them: churn label, health, engagement, days
api_risk_terms(health_score, churn_risk, engagement, days) ==
    (IF churn_risk = Str("High") THEN << F0_4 >>
     ELSE IF churn_risk = Str("Medium") THEN << F0_2 >>
     ELSE << >>)
    \o (IF health_score.t = "num" /\ health_score.v < 30 THEN << F0_3 >>
        ELSE IF health_score.t = "num" /\ health_score.v < 50 THEN << F0_2 >>
        ELSE << >>)
    \o (IF engagement.t = "num" /\ engagement.v < 30 THEN << F0_2 >>
        ELSE << >>)
    \o (IF days.t = "num" /\ days.v > 60 THEN << F0_1 >> ELSE << >>)

api_risk_level(risk_score) ==
    IF FGt(risk_score, F0_7) THEN "Critical"
    ELSE IF FGt(risk_score, F0_5) THEN "High"
    ELSE IF FGt(risk_score, F0_3) THEN "Medium"
    ELSE "Low"

\* the row raises: < on a value that is no number, or customer['customer_id']
\* or customer['name'] on a row without that column
api_row_raises(customer) ==
    \/ "bad" \in { Get(customer, "current_health_score", Num(50)).t,
                   Get(customer, "engagement_score", Num(50)).t,
                   Get(customer, "days_since_last_engagement", Num(30)).t }
    \/ "customer_id" \notin DOMAIN customer
    \/ "name" \notin DOMAIN customer

\* the dict the loop appends for one row
api_customer_result(customer) ==
    LET health_score == Get(customer, "current_health_score", Num(50))
        churn_risk == Get(customer, "churn_risk_level", Str("Medium"))
        engagement == Get(customer, "engagement_score", Num(50))
        days_since_engagement ==
            Get(customer, "days_since_last_engagement", Num(30))
        risk_score ==
            FSum(api_risk_terms(health_score, churn_risk, engagement,
                                days_since_engagement))
        risk_level == api_risk_level(risk_score)
    IN  [ customer_id |-> customer.customer_id,
          name |-> customer.name,
          risk_level |-> risk_level,
          risk_score |-> risk_score,
          health_score |-> health_score,
          churn_risk |-> churn_risk,
          engagement_score |-> engagement,
          priority |->
              IF risk_level = "Critical" THEN "Critical"
              ELSE IF risk_level = "High" THEN "High"
              ELSE "Medium" ]

\* the pair process_customer_batch() returns.  Of summary_text the model
\* keeps its heading and the values it prints; the average is kept as the
\* sum and the count that mean() divides.
api_process_customer_batch(loaded, data) ==
    IF ~loaded \/ data.rows = << >>
    THEN [ results_df |-> EmptyFrame,
           summary_text |->
               [ heading |-> "No data loaded. Please load data first." ] ]
    ELSE IF \E i \in DOMAIN data.rows : api_row_raises(data.rows[i])
    THEN [ results_df |-> EmptyFrame,
           summary_text |-> [ heading |-> "Batch processing failed" ] ]
    ELSE LET rows == [ i \in DOMAIN data.rows |->
                         api_customer_result(data.rows[i]) ]
         IN  [ results_df |-> Frame(rows),
               summary_text |->
                   [ heading |-> "Decision Engine Summary",
                     total_customers |-> Len(rows),
                     high_risk |-> HighRiskCount(rows),
                     critical_priority |-> CriticalCount(rows),
                     avg_risk_score |-> << RiskScoreSum(rows), Len(rows) >>,
                     risk_distribution |-> value_counts(rows, "risk_level"),
                     priority_distribution |->
                         value_counts(rows, "priority") ] ]

(***************************************************************************)
(* AURASettings.  Thresholds are in hundredths; of the configuration only  *)
(* the keys validate_settings reads are kept.                              *)
(***************************************************************************)
\* float(os.getenv(name, default)) on the strings that occur; "" stands for
\* a variable that is not set
ParseFloat(text, default) ==
    CASE text = "" -> Num(default)
      [] text = "0.3" -> Num(30)
      [] text = "0.4" -> Num(40)
      [] text = "0.7" -> Num(70)
      [] text = "1.5" -> Num(150)
      [] text = "nan" -> NaN
      [] OTHER -> BadNum

\* AURASettings(): float() raises ValueError on a string that is no number,
\* and __init__ does not catch it
AURASettings(env) ==
    LET high == ParseFloat(env.AURA_RISK_THRESHOLD_HIGH, 70)
        medium == ParseFloat(env.AURA_RISK_THRESHOLD_MEDIUM, 40)
    IN  IF high = BadNum \/ medium = BadNum THEN [ error |-> "ValueError" ]
        ELSE [ app_config |->
                 [ app_name |->
                       Str("A.U.R.A - Adaptive User Retention Assistant"),
                   max_file_size |-> Num(10485760),
                   environment |-> Str("development"),
                   debug |-> Str("False") ],
               database_config |-> [ type |-> Str("sqlite") ],
               ai_config |->
                 [ risk_threshold_high |-> high,
                   risk_threshold_medium |-> medium ],
               dashboard_config |-> [ theme |-> Str("light") ],
               notification_config |->
                 [ email_enabled |-> FALSE, email_smtp_host |-> Str(""),
                   slack_enabled |-> FALSE, slack_webhook_url |-> Str("") ] ]

\* the attribute a category names in config_map
ConfigOf(category) ==
    CASE category = "app" -> "app_config"
      [] category = "database" -> "database_config"
      [] category = "ai" -> "ai_config"
      [] category = "dashboard" -> "dashboard_config"
      [] category = "notification" -> "notification_config"
      [] OTHER -> ""

\* the settings after update_setting(category, key, value): any value is
\* stored as it is; an unknown category changes nothing
update_setting(st, category, key, value) ==
    IF ConfigOf(category) = "" THEN st
    ELSE [ st EXCEPT ![ConfigOf(category)] =
             [ k \in DOMAIN @ \cup {key} |-> IF k = key THEN value ELSE @[k] ] ]

\* not 0 <= x <= 1 for a number or a NaN
OutsideUnitInterval(x) == ~(x.t = "num" /\ 0 <= x.v /\ x.v <= 100)

\* a <= b of two numbers or NaNs
NumLe(a, b) == a.t = "num" /\ b.t = "num" /\ a.v <= b.v

\* comparing a value that is no number raises, and the except branch adds
\* its error to those found before
validate_settings(st) ==
    LET app == st.app_config
        ai == st.ai_config
        high == ai.risk_threshold_high
        medium == ai.risk_threshold_medium
        notification == st.notification_config
        app_errors ==
            (IF app.app_name = Str("") THEN << "App name is required" >>
             ELSE << >>)
            \o (IF app.max_file_size.v <= 0
                THEN << "Max file size must be positive" >> ELSE << >>)
            \o (IF st.database_config.type
                     \notin {Str("sqlite"), Str("postgresql"), Str("mysql")}
                THEN << "Invalid database type" >> ELSE << >>)
        high_errors ==
            IF OutsideUnitInterval(high)
            THEN << "Risk threshold high must be between 0 and 1" >>
            ELSE << >>
        medium_errors ==
            IF OutsideUnitInterval(medium)
            THEN << "Risk threshold medium must be between 0 and 1" >>
            ELSE << >>
        warnings ==
            (IF NumLe(high, medium)
             THEN << "Risk threshold high should be greater than medium" >>
             ELSE << >>)
            \o (IF st.dashboard_config.theme \notin {Str("light"), Str("dark")}
                THEN << "Invalid dashboard theme" >> ELSE << >>)
            \o (IF notification.email_enabled
                    /\ notification.email_smtp_host = Str("")
                THEN << "Email enabled but SMTP host not configured" >>
                ELSE << >>)
            \o (IF notification.slack_enabled
                    /\ notification.slack_webhook_url = Str("")
                THEN << "Slack enabled but webhook URL not configured" >>
                ELSE << >>)
        info ==
            << "Configuration loaded for " \o app.app_name.v,
               "Environment: " \o app.environment.v,
               "Debug mode: " \o app.debug.v >>
        failed == << "Configuration validation failed" >>
    IN  IF high.t = "bad"
        THEN [ errors |-> app_errors \o failed,
               warnings |-> << >>, info |-> << >> ]
        ELSE IF medium.t = "bad"
        THEN [ errors |-> app_errors \o high_errors \o failed,
               warnings |-> << >>, info |-> << >> ]
        ELSE [ errors |-> app_errors \o high_errors \o medium_errors,
               warnings |-> warnings, info |-> info ]

(***************************************************************************)
(* Input records                                                           *)
(***************************************************************************)
HealthValues ==
    { AbsentNum, NaN, BadNum } \cup
    { Num(n) : n \in { -FarBelow, -1, 0, 20, 29, 30, 49, 50, 69, 70, 90,
                       100, FarAbove } }

\* engagement_score in hundredths
EngagementValues ==
    { AbsentNum, BadNum } \cup
    { Num(n) : n \in { -10, 0, 10, 29, 30, 69, 70, 95, 100, 150 } }

ChurnValues ==
    { AbsentStr, BadStr } \cup
    { Str(s) : s \in { "High", "Medium", "Low", "HIGH", "Unknown" } }

DaysValues ==
    { AbsentNum, NaN, BadNum } \cup
    { Num(n) : n \in { -5, 5, 29, 30, 59, 60, 90 } }

SegmentValues ==
    { AbsentStr } \cup
    { Str(s) : s \in { "SMB", "Medium-Value", "High-Value", "Enterprise" } }

PlanValues ==
    { AbsentStr } \cup { Str(s) : s \in { "Basic", "Premium", "Enterprise" } }

RevenueValues == { AbsentNum, Num(100000), Num(150000) }

Record(h, c, e, d, s, p, r) ==
    [ is_mapping |-> TRUE,
      current_health_score |-> h,
      churn_risk_level |-> c,
      engagement_score |-> e,
      days_since_last_engagement |-> d,
      segment |-> s,
      subscription_plan |-> p,
      lifetime_revenue |-> r ]

\* an argument that is no mapping at all (None): every .get() on it raises
NotAMapping ==
    [ Record(AbsentNum, AbsentStr, AbsentNum, AbsentNum, AbsentStr, AbsentStr,
             AbsentNum) EXCEPT !.is_mapping = FALSE ]

\* records that vary the four scored fields
ScoredRecords ==
    { Record(h, c, e, d, AbsentStr, AbsentStr, AbsentNum) :
        h \in HealthValues, c \in ChurnValues, e \in EngagementValues,
        d \in DaysValues }

\* records that vary the fields the recommendation reads or is claimed to read
ValuedRecords ==
    { Record(AbsentNum, AbsentStr, AbsentNum, AbsentNum, s, p, r) :
        s \in SegmentValues, p \in PlanValues, r \in RevenueValues }

\* client records of RetentionEngine; revenue_growth_90d in hundredths
ClientHealthValues ==
    { AbsentNum, BadNum } \cup { Num(n) : n \in { -1, 10, 40, 60, 100 } }
ClientEngagementValues ==
    { AbsentNum } \cup { Num(n) : n \in { 10, 50, 100 } }
SupportValues == { AbsentNum } \cup { Num(n) : n \in { 3, 6 } }
NpsValues == { AbsentNum } \cup { Num(n) : n \in 0..10 }
GrowthValues == { AbsentNum } \cup { Num(n) : n \in { -50, -10, 5, 10 } }

Client(h, e, s, n, g, r) ==
    [ is_mapping |-> TRUE,
      current_health_score |-> h,
      engagement_score |-> e,
      support_tickets_30d |-> s,
      nps_score |-> n,
      revenue_growth_90d |-> g,
      total_lifetime_revenue |-> r ]

NotAClient ==
    [ Client(AbsentNum, AbsentNum, AbsentNum, AbsentNum, AbsentNum, AbsentNum)
        EXCEPT !.is_mapping = FALSE ]

Clients ==
    { Client(h, e, s, n, g, r) :
        h \in ClientHealthValues, e \in ClientEngagementValues,
        s \in SupportValues, n \in NpsValues, g \in GrowthValues,
        r \in RevenueValues }

NoResult == [ none |-> TRUE ]

\* the records of the batches: Critical at 1.0, Low at 0.0, the record with
\* no scored column, Medium at 0.45, High at exactly 0.5, Medium at
\* 0.1 + 0.2, and a record whose churn label is None, which
\* analyze_customer_risk fails on
BatchRecords ==
    { Record(Num(20), Str("High"), Num(10), Num(90), AbsentStr, AbsentStr,
             AbsentNum),
      Record(Num(90), Str("Low"), Num(90), Num(5), AbsentStr, AbsentStr,
             AbsentNum),
      Record(AbsentNum, AbsentStr, AbsentNum, AbsentNum, AbsentStr,
             AbsentStr, AbsentNum),
      Record(Num(50), Str("Medium"), Num(50), Num(30), AbsentStr, AbsentStr,
             AbsentNum),
      Record(Num(40), Str("Medium"), Num(50), Num(0), Str("Enterprise"),
             Str("Premium"), AbsentNum),
      Record(Num(60), Str("Medium"), Num(80), Num(0), AbsentStr, AbsentStr,
             AbsentNum),
      Record(Num(90), BadStr, Num(90), Num(5), AbsentStr, AbsentStr,
             AbsentNum) }

\* a row of a client DataFrame, with its client_segment column
SegmentClient(h, e, s, n, g, r, segment) ==
    [ is_mapping |-> TRUE,
      current_health_score |-> h,
      engagement_score |-> e,
      support_tickets_30d |-> s,
      nps_score |-> n,
      revenue_growth_90d |-> g,
      total_lifetime_revenue |-> r,
      client_segment |-> segment ]

\* the clients of the batches: one at 1.7 (Critical), one at 0.0 (Very Low),
\* the all-defaults client (Medium at 0.5), one at 0.7 (High), one whose health is a
\* string, which analyze_client_risk fails on; with and without a segment
BatchClients ==
    { SegmentClient(Num(10), Num(10), Num(6), Num(0), Num(-50), AbsentNum,
                    Str("Enterprise")),
      SegmentClient(Num(100), Num(100), AbsentNum, Num(9), Num(10), AbsentNum,
                    Str("SMB")),
      SegmentClient(AbsentNum, AbsentNum, AbsentNum, AbsentNum, AbsentNum,
                    AbsentNum, AbsentStr),
      SegmentClient(Num(40), Num(10), Num(3), Num(9), Num(10), AbsentNum,
                    Str("SMB")),
      SegmentClient(BadNum, Num(50), AbsentNum, Num(9), Num(10), AbsentNum,
                    AbsentStr) }

MaxBatch == 3             \* a batch has at most MaxBatch rows

StringColumns ==
    { "churn_risk_level", "segment", "subscription_plan", "client_segment" }

\* a DataFrame has the columns of all its records: where a record lacks a
\* column that another record has, its cell is NaN, which is no number in a
\* numeric column and a float in a column of strings
Cell(batch, i, column) ==
    IF column = "is_mapping" \/ batch[i][column].t # "absent"
         \/ \A j \in DOMAIN batch : batch[j][column].t = "absent"
    THEN batch[i][column]
    ELSE IF column \in StringColumns THEN BadStr ELSE NaN

DataFrame(batch) ==
    Frame([ i \in DOMAIN batch |->
              [ column \in DOMAIN batch[i] |-> Cell(batch, i, column) ] ])

FramesOf(rows) ==
    { DataFrame(batch) :
        batch \in UNION { [1..n -> rows] : n \in 0..MaxBatch } }

\* the one-row frames of these records, indexed by labels
LabelledFramesOf(rows) ==
    { IndexedByLabel(DataFrame(<< row >>)) : row \in rows }

\* the clock readings of the passes over n rows, none before start
ClockReadings(start, n) ==
    { clocks \in [1..n -> start..MaxClock] :
        \A i \in 1..n : i > 1 => clocks[i - 1] <= clocks[i] }

(***************************************************************************)
(* The engine and its caller                                               *)
(***************************************************************************)
Init ==
    /\ rules = initialize_rules
    /\ thresholds = initialize_thresholds
    /\ pc = "idle"
    /\ now = 0
    /\ record = NotAMapping
    /\ analysis = NoResult
    /\ recommendation = NoResult
    /\ retention_rules = retention_initialize_rules
    /\ retention_thresholds = retention_initialize_thresholds
    /\ strategies = initialize_strategies
    /\ client = NotAClient
    /\ client_analysis = NoResult
    /\ customer_frame = NotAFrame
    /\ results = NoResult
    /\ summary = NoResult
    /\ client_frame = NotAFrame
    /\ analysis_results = NoResult
    /\ analysis_summary = NoResult
    /\ settings = NoResult
    /\ validation_results = NoResult
    /\ api_customer_data = EmptyFrame
    /\ data_loaded = FALSE
    /\ api_results = NoResult

\* risk_analysis = engine.analyze_customer_risk(customer)
AnalyzeCustomerRisk ==
    /\ pc = "idle"
    /\ \E customer \in ScoredRecords \cup ValuedRecords \cup {NotAMapping},
          t \in now..MaxClock :
          /\ now' = t
          /\ record' = customer
          /\ analysis' = analyze_customer_risk(rules, thresholds, customer, t)
    /\ pc' = "analyzed"
    /\ UNCHANGED <<apiGlobals, api_results, configuration, rulesEngine, retentionEngine, retentionCalls, recommendation,
                   rulesBatch, retentionBatch>>

\* recommendations = engine.generate_recommendations(risk_analysis, customer)
GenerateRecommendations ==
    /\ pc = "analyzed"
    /\ \E customer \in {record} \cup ValuedRecords \cup {NotAMapping} :
          /\ record' = customer
          /\ recommendation' = generate_recommendations(analysis, customer)
    /\ pc' = "recommended"
    /\ UNCHANGED <<apiGlobals, api_results, configuration, rulesEngine, retentionEngine, retentionCalls, now, analysis,
                   rulesBatch, retentionBatch>>

\* the caller drops the results and goes on to its next record
Return ==
    /\ pc = "recommended"
    /\ pc' = "idle"
    /\ record' = NotAMapping
    /\ analysis' = NoResult
    /\ recommendation' = NoResult
    /\ UNCHANGED <<apiGlobals, api_results, configuration, rulesEngine, retentionEngine, retentionCalls, now,
                   rulesBatch, retentionBatch>>

Next == AnalyzeCustomerRisk \/ GenerateRecommendations \/ Return

Spec == Init /\ [][Next]_vars

\* analysis = retention_engine.analyze_client_risk(client)
AnalyzeClientRisk ==
    /\ pc = "idle"
    /\ \E client_data \in Clients \cup {NotAClient}, t \in now..MaxClock :
          LET client_risk ==
                  analyze_client_risk(retention_rules, retention_thresholds,
                                      strategies, client_data, t)
          IN  /\ now' = t
              /\ client' = client_data
              /\ client_analysis' = client_risk
              /\ strategies' =
                    strategies_after_recommendations(strategies,
                        client_risk.risk_factors)
    /\ pc' = "client_analyzed"
    /\ UNCHANGED <<apiGlobals, api_results, configuration, rulesEngine, retention_rules, retention_thresholds,
                   rulesCalls, rulesBatch, retentionBatch>>

\* the caller drops the result and goes on to its next client
ReturnClient ==
    /\ pc = "client_analyzed"
    /\ pc' = "idle"
    /\ client' = NotAClient
    /\ client_analysis' = NoResult
    /\ UNCHANGED <<apiGlobals, api_results, configuration, rulesEngine, retentionEngine, rulesCalls, now, rulesBatch,
                   retentionBatch>>

RetentionNext == AnalyzeClientRisk \/ ReturnClient

RetentionSpec == Init /\ [][RetentionNext]_vars

\* results = engine.process_customer_batch(customer_data)
ProcessCustomerBatch ==
    /\ pc = "idle"
    /\ \E customer_data \in FramesOf(BatchRecords) \cup {NotAFrame}
                              \cup LabelledFramesOf(BatchRecords),
          t \in now..MaxClock :
          /\ now' = t
          /\ customer_frame' = customer_data
          /\ results' =
                process_customer_batch(rules, thresholds, customer_data, t)
    /\ pc' = "batch_processed"
    /\ UNCHANGED <<apiGlobals, api_results, configuration, rulesEngine, retentionEngine, rulesCalls, retentionCalls,
                   summary, retentionBatch>>

\* summary = engine.get_decision_summary(results)
GetDecisionSummary ==
    /\ pc = "batch_processed"
    /\ summary' = get_decision_summary(results)
    /\ pc' = "summarized"
    /\ UNCHANGED <<apiGlobals, api_results, configuration, rulesEngine, retentionEngine, rulesCalls, retentionCalls,
                   now, customer_frame, results, retentionBatch>>

\* the caller drops the batch and its summary
ReturnBatch ==
    /\ pc = "summarized"
    /\ pc' = "idle"
    /\ customer_frame' = NotAFrame
    /\ results' = NoResult
    /\ summary' = NoResult
    /\ UNCHANGED <<apiGlobals, api_results, configuration, rulesEngine, retentionEngine, rulesCalls, retentionCalls,
                   now, retentionBatch>>

\* results = retention_engine.process_batch_analysis(client_data)
ProcessBatchAnalysis ==
    /\ pc = "idle"
    /\ \E client_data \in FramesOf(BatchClients) \cup {NotAFrame}
                            \cup LabelledFramesOf(BatchClients) :
          \E clocks \in ClockReadings(now, Len(client_data.rows)) :
              /\ now' = IF clocks = << >> THEN now
                        ELSE clocks[Len(clocks)]
              /\ client_frame' = client_data
              /\ analysis_results' =
                    process_batch_analysis(retention_rules,
                        retention_thresholds, strategies, client_data, clocks)
              /\ strategies' =
                    strategies_after_batch(retention_rules,
                        retention_thresholds, strategies, client_data.rows)
    /\ pc' = "clients_processed"
    /\ UNCHANGED <<apiGlobals, api_results, configuration, rulesEngine, retention_rules, retention_thresholds,
                   rulesCalls, retentionCalls, rulesBatch, analysis_summary>>

\* summary = retention_engine.get_analysis_summary(results)
GetAnalysisSummary ==
    /\ pc = "clients_processed"
    /\ analysis_summary' = get_analysis_summary(analysis_results)
    /\ pc' = "clients_summarized"
    /\ UNCHANGED <<apiGlobals, api_results, configuration, rulesEngine, retentionEngine, rulesCalls, retentionCalls,
                   now, rulesBatch, client_frame, analysis_results>>

ReturnAnalysis ==
    /\ pc = "clients_summarized"
    /\ pc' = "idle"
    /\ client_frame' = NotAFrame
    /\ analysis_results' = NoResult
    /\ analysis_summary' = NoResult
    /\ UNCHANGED <<apiGlobals, api_results, configuration, rulesEngine, retentionEngine, rulesCalls, retentionCalls,
                   now, rulesBatch>>

BatchNext ==
    \/ ProcessCustomerBatch \/ GetDecisionSummary \/ ReturnBatch
    \/ ProcessBatchAnalysis \/ GetAnalysisSummary \/ ReturnAnalysis

BatchSpec == Init /\ [][BatchNext]_vars

\* the environments of the application
Environments ==
    [ AURA_RISK_THRESHOLD_HIGH : {"", "0.3", "0.4", "abc"},
      AURA_RISK_THRESHOLD_MEDIUM : {"", "0.4", "nan"} ]

\* the updates the application makes to its settings
SettingUpdates ==
    { <<"ai", key, value>> :
        key \in {"risk_threshold_high", "risk_threshold_medium"},
        value \in {Num(-10), Num(40), Num(70), Num(150), NaN, BadNum} }
    \cup { <<"dashboard", "theme", Str("neon")>>,
           <<"database", "type", Str("oracle")>>,
           <<"app", "max_file_size", Num(0)>>,
           <<"scoring", "risk_threshold_high", Num(40)>> }

\* from src.config.settings import AURASettings; settings = AURASettings().
\* The annotation Dict[str, List[str]] of validate_settings names List, which
\* the module does not import: where annotations are evaluated when the
\* class body runs, the import raises NameError; where they are evaluated
\* lazily, it succeeds.
LoadSettings ==
    /\ pc = "idle"
    /\ \/ settings' = [ error |-> "NameError" ]
       \/ \E env \in Environments : settings' = AURASettings(env)
    /\ pc' = IF "error" \in DOMAIN settings' THEN "not_configured"
             ELSE "configured"
    /\ UNCHANGED <<apiGlobals, api_results, rulesEngine, retentionEngine, now, rulesCalls,
                   retentionCalls, rulesBatch, retentionBatch,
                   validation_results>>

\* settings.update_setting(category, key, value)
UpdateSetting ==
    /\ pc = "configured"
    /\ \E update \in SettingUpdates :
          settings' = update_setting(settings, update[1], update[2], update[3])
    /\ UNCHANGED <<apiGlobals, api_results, rulesEngine, retentionEngine, pc, now, rulesCalls,
                   retentionCalls, rulesBatch, retentionBatch,
                   validation_results>>

\* validation = settings.validate_settings()
ValidateSettings ==
    /\ pc = "configured"
    /\ validation_results' = validate_settings(settings)
    /\ pc' = "validated"
    /\ UNCHANGED <<apiGlobals, api_results, rulesEngine, retentionEngine, now, rulesCalls,
                   retentionCalls, rulesBatch, retentionBatch, settings>>

\* engine = RuleBasedDecisionEngine(): __init__ builds its own tables and
\* reads no settings
ConstructEngine ==
    /\ pc \in {"validated", "not_configured"}
    /\ rules' = initialize_rules
    /\ thresholds' = initialize_thresholds
    /\ pc' = "constructed"
    /\ UNCHANGED <<apiGlobals, api_results, retentionEngine, now, rulesCalls,
                   retentionCalls, rulesBatch, retentionBatch, configuration>>

\* the application goes on to score with its engine
StartScoring ==
    /\ pc = "constructed"
    /\ pc' = "idle"
    /\ settings' = NoResult
    /\ validation_results' = NoResult
    /\ UNCHANGED <<apiGlobals, api_results, rulesEngine, retentionEngine, now, rulesCalls,
                   retentionCalls, rulesBatch, retentionBatch>>

SettingsNext ==
    \/ LoadSettings \/ UpdateSetting \/ ValidateSettings
    \/ ConstructEngine \/ StartScoring

SettingsSpec == Init /\ [][SettingsNext]_vars

\* the values load_aura_data draws for a customer: health in [0, 100], a
\* label of Low, Medium, High, engagement in [0, 1), days in 1..89
LoadedCustomers ==
    { Record(Num(20), Str("High"), Num(10), Num(80), Str("SMB"),
             Str("Basic"), AbsentNum),
      Record(Num(90), Str("Low"), Num(90), Num(5), Str("SMB"),
             Str("Standard"), AbsentNum),
      Record(Num(40), Str("Medium"), Num(50), Num(1), Str("High-Value"),
             Str("Premium"), AbsentNum),
      Record(Num(60), Str("High"), Num(20), Num(60), Str("Medium-Value"),
             Str("Basic"), AbsentNum),
      Record(Num(25), Str("Medium"), Num(80), Num(45), Str("SMB"),
             Str("Enterprise"), AbsentNum),
      Record(Num(49), Str("High"), Num(29), Num(61), Str("SMB"),
             Str("Basic"), AbsentNum) }

\* row i of the loaded data: customer_id CUST_000i and name Customer i
LoadedRow(customer, i) ==
    [ column \in DOMAIN customer \cup {"customer_id", "name"} |->
        IF column = "customer_id" THEN "CUST_000" \o ToString(i)
        ELSE IF column = "name" THEN "Customer " \o ToString(i)
        ELSE customer[column] ]

LoadedFrames ==
    { Frame([ i \in DOMAIN batch |-> LoadedRow(batch[i], i) ]) :
        batch \in UNION { [1..n -> LoadedCustomers] : n \in 1..MaxBatch } }

\* load_aura_data()
LoadAuraData ==
    /\ pc = "idle"
    /\ api_customer_data' \in LoadedFrames
    /\ data_loaded' = TRUE
    /\ UNCHANGED <<api_results, configuration, rulesEngine, retentionEngine,
                   pc, now, rulesCalls, retentionCalls, rulesBatch,
                   retentionBatch>>

\* results_df, summary = process_customer_batch() of aura_api
ApiProcessCustomerBatch ==
    /\ pc = "idle"
    /\ api_results' = api_process_customer_batch(data_loaded, api_customer_data)
    /\ pc' = "api_processed"
    /\ UNCHANGED <<apiGlobals, configuration, rulesEngine, retentionEngine,
                   now, rulesCalls, retentionCalls, rulesBatch,
                   retentionBatch>>

\* results = engine.process_customer_batch(customer_data) on the data of
\* aura_api
ScoreLoadedBatch ==
    /\ pc = "api_processed"
    /\ \E t \in now..MaxClock :
          /\ now' = t
          /\ customer_frame' = api_customer_data
          /\ results' =
                process_customer_batch(rules, thresholds, api_customer_data, t)
    /\ pc' = "both_processed"
    /\ UNCHANGED <<apiGlobals, api_results, configuration, rulesEngine,
                   retentionEngine, rulesCalls, retentionCalls, summary,
                   retentionBatch>>

\* the caller drops both results
ReturnApi ==
    /\ pc \in {"api_processed", "both_processed"}
    /\ pc' = "idle"
    /\ api_results' = NoResult
    /\ customer_frame' = NotAFrame
    /\ results' = NoResult
    /\ UNCHANGED <<apiGlobals, configuration, rulesEngine, retentionEngine,
                   now, rulesCalls, retentionCalls, summary, retentionBatch>>

ApiNext ==
    \/ LoadAuraData \/ ApiProcessCustomerBatch \/ ScoreLoadedBatch
    \/ ReturnApi

ApiSpec == Init /\ [][ApiNext]_vars

\* every call of either engine, in any order
EngineNext == Next \/ RetentionNext \/ BatchNext

EngineSpec == Init /\ [][EngineNext]_vars

(***************************************************************************)
(* Properties of RuleBasedDecisionEngine                                   *)
(***************************************************************************)
Analyzed == pc \in {"analyzed", "recommended"}
Scored == Analyzed /\ "error" \notin DOMAIN analysis
JustAnalyzed == pc = "analyzed"
Recommended == pc = "recommended"

\* the value a numeric field takes in the call, after .get() defaulting
Health == Get(record, "current_health_score", Num(50))
Engagement == Get(record, "engagement_score", Num(50))
Churn == Get(record, "churn_risk_level", Str("Medium"))
Days == Get(record, "days_since_last_engagement", Num(30))

\* C1: every analysis, of in-range and of out-of-range records and also the
\* failure result, has its composite_risk_score in [0, 1].
C1_ScoreInUnitInterval ==
    Analyzed =>
        /\ FGe(analysis.composite_risk_score, F0_0)
        /\ FLe(analysis.composite_risk_score, F1_0)

\* an adversarial record was scored: health far above 100, engagement above
\* 1, negative days, unknown label
C1_Witness ==
    /\ JustAnalyzed /\ Scored
    /\ record.current_health_score = Num(FarAbove)
    /\ record.engagement_score = Num(150)
    /\ record.days_since_last_engagement = Num(-5)
    /\ record.churn_risk_level = Str("Unknown")

\* the order Low < Medium < High < Critical
Rank(level) ==
    CASE level = "Low" -> 0 [] level = "Medium" -> 1
      [] level = "High" -> 2 [] level = "Critical" -> 3

\* doubles around every multiple of 0.05 in [0, 1]
ScoreGrid ==
    { <<k, d>> : k \in 0..20, d \in {-128, -64, -32, -1, 0, 1, 32, 64, 128} }

\* the step function of the claim, thresholds written out
StepLevel(score) ==
    IF FGe(score, F0_7) THEN "Critical"
    ELSE IF FGe(score, F0_5) THEN "High"
    ELSE IF FGe(score, F0_3) THEN "Medium"
    ELSE "Low"

\* C3: the risk level of a scored record is the step function of its
\* composite score (>= 0.7 Critical, >= 0.5 High, >= 0.3 Medium, else Low),
\* and no score at least as high gets a lower level from the engine.
C3_LevelIsMonotonicStep ==
    Scored =>
        /\ analysis.risk_level = StepLevel(analysis.composite_risk_score)
        /\ \A s \in ScoreGrid :
              FGe(s, analysis.composite_risk_score) =>
                  Rank(determine_risk_level(thresholds, s))
                      >= Rank(analysis.risk_level)

\* a record was scored exactly on the High threshold
C3_Witness ==
    /\ JustAnalyzed /\ Scored
    /\ analysis.composite_risk_score = F0_5
    /\ analysis.risk_level = "High"

\* the composite score the engine gives a record
ScoreOf(customer) ==
    analyze_customer_risk(rules, thresholds, customer, now).composite_risk_score

HealthNumbers == { x.v : x \in { y \in HealthValues : y.t = "num" } }
EngagementNumbers == { x.v : x \in { y \in EngagementValues : y.t = "num" } }
DaysNumbers == { x.v : x \in { y \in DaysValues : y.t = "num" } }

\* C4 (as claimed): lowering health_score, lowering engagement_score or
\* raising days_since_last_engagement of the scored record, other fields
\* fixed, never lowers the composite score, for all numeric values.
C4_Monotonic ==
    (JustAnalyzed /\ Scored) =>
        /\ \A h \in HealthNumbers :
              (record.current_health_score.t = "num"
                 /\ h < record.current_health_score.v) =>
              FGe(ScoreOf([record EXCEPT !.current_health_score = Num(h)]),
                  analysis.composite_risk_score)
        /\ \A e \in EngagementNumbers :
              (record.engagement_score.t = "num"
                 /\ e < record.engagement_score.v) =>
              FGe(ScoreOf([record EXCEPT !.engagement_score = Num(e)]),
                  analysis.composite_risk_score)
        /\ \A d \in DaysNumbers :
              (record.days_since_last_engagement.t = "num"
                 /\ d > record.days_since_last_engagement.v) =>
              FGe(ScoreOf([record EXCEPT
                             !.days_since_last_engagement = Num(d)]),
                  analysis.composite_risk_score)

\* the contribution of a factor to the composite score: its weight, 0 when
\* risk_factors has no entry of that name
FactorWeight(risk_factors, name) ==
    IF \E i \in 1..Len(risk_factors) : risk_factors[i].name = name
    THEN risk_factors[CHOOSE i \in 1..Len(risk_factors) :
                         risk_factors[i].name = name].weight
    ELSE F0_0

\* C5 (as claimed): out-of-range numbers raise no error and are scored like
\* the nearest end of their domain: health below 0 weighs 0.3 and above 100
\* weighs 0, engagement below 0 weighs 0.2 and above 1 weighs 0.
C5_OutOfRangeClamped ==
    (JustAnalyzed /\ record.is_mapping /\ Health.t = "num"
       /\ Engagement.t = "num" /\ Churn.t = "str" /\ Days.t \in {"num", "nan"})
    =>
        /\ "error" \notin DOMAIN analysis
        /\ Health.v < 0 =>
              FactorWeight(analysis.risk_factors, "health_score") = F0_3
        /\ Health.v > 100 =>
              FactorWeight(analysis.risk_factors, "health_score") = F0_0
        /\ Engagement.v < 0 =>
              FactorWeight(analysis.risk_factors, "engagement") = F0_2
        /\ Engagement.v > 100 =>
              FactorWeight(analysis.risk_factors, "engagement") = F0_0

\* the four lookup tables of the claim
HealthLookup(h) ==
    IF h < 30 THEN F0_3 ELSE IF h < 50 THEN F0_2
    ELSE IF h < 70 THEN F0_1 ELSE F0_0
EngagementLookup(e) ==
    IF e < 30 THEN F0_2 ELSE IF e < 70 THEN F0_1 ELSE F0_0
LabelLookup(label) ==
    CASE label = "High" -> F0_4 [] label = "Medium" -> F0_2
      [] label = "Low" -> F0_0
DaysLookup(d) ==
    IF d >= 60 THEN F0_1 ELSE IF d >= 30 THEN F0_05 ELSE F0_0

InDomain ==
    /\ record.is_mapping
    /\ Health.t = "num" /\ 0 <= Health.v /\ Health.v <= 100
    /\ Engagement.t = "num" /\ 0 <= Engagement.v /\ Engagement.v <= 100
    /\ Churn \in {Str("High"), Str("Medium"), Str("Low")}
    /\ Days.t = "num" /\ Days.v >= 0

\* C6: for a record with every field inside its documented domain the
\* composite score is the sum of the four table lookups (health, engagement,
\* churn label, days), added in that order.
C6_ScoreIsSumOfLookups ==
    (JustAnalyzed /\ InDomain) =>
        /\ "error" \notin DOMAIN analysis
        /\ analysis.composite_risk_score =
              FSum(<< HealthLookup(Health.v), EngagementLookup(Engagement.v),
                      LabelLookup(Churn.v), DaysLookup(Days.v) >>)

\* the ends of the domains, where no bucket matches: health 100 and
\* engagement 1.0, with a label and a day count that do weigh
C6_Witness ==
    /\ JustAnalyzed
    /\ record.current_health_score = Num(100)
    /\ record.engagement_score = Num(100)
    /\ record.churn_risk_level = Str("High")
    /\ record.days_since_last_engagement = Num(30)
    /\ analysis.composite_risk_score = F0_45

\* a record that carries nothing but its customer_id
OnlyCustomerId ==
    record = Record(AbsentNum, AbsentStr, AbsentNum, AbsentNum, AbsentStr,
                    AbsentStr, AbsentNum)

\* C7 (as claimed): the all-defaults record scores exactly 0.4
\* (0.1 + 0.1 + 0.2 + 0.0) and is Medium.
C7_DefaultsScore040 ==
    (JustAnalyzed /\ OnlyCustomerId) =>
        /\ analysis.composite_risk_score = F0_4
        /\ analysis.risk_level = "Medium"

\* C7 (amended): the all-defaults record scores exactly 0.45: 0.1 health,
\* 0.1 engagement, 0.2 churn and 0.05 for its 30 days, which lie in [30,60);
\* its risk level is Medium.
C7_DefaultsScore045 ==
    (JustAnalyzed /\ OnlyCustomerId) =>
        /\ analysis.composite_risk_score = F0_45
        /\ analysis.risk_factors =
              << [name |-> "health_score", weight |-> F0_1],
                 [name |-> "engagement", weight |-> F0_1],
                 [name |-> "churn_risk", weight |-> F0_2],
                 [name |-> "days_since_engagement", weight |-> F0_05] >>
        /\ analysis.risk_level = "Medium"

C7_Witness ==
    JustAnalyzed /\ OnlyCustomerId /\ analysis.risk_level = "Medium"

\* the record of scenario 1
Scenario1 ==
    Record(Num(20), Str("High"), Num(10), Num(90), AbsentStr, AbsentStr,
           AbsentNum)

\* C8: health 20, engagement 0.1, label High, 90 days: composite score
\* >= 0.7, risk level Critical, and the recommendation for that result and
\* record has priority Critical.
C8_Scenario1Critical ==
    /\ (JustAnalyzed /\ record = Scenario1) =>
          /\ FGe(analysis.composite_risk_score, F0_7)
          /\ analysis.risk_level = "Critical"
    /\ (Recommended /\ record = Scenario1) =>
          /\ analysis.risk_level = "Critical"
          /\ recommendation.priority = "Critical"

C8_Witness ==
    /\ Recommended /\ record = Scenario1
    /\ analysis.composite_risk_score = F1_0

\* one level up, Critical staying Critical
Escalate(priority) ==
    CASE priority = "Low" -> "Medium" [] priority = "Medium" -> "High"
      [] priority = "High" -> "Critical" [] priority = "Critical" -> "Critical"

HighValue(customer) ==
    \/ (customer.lifetime_revenue.t = "num"
          /\ customer.lifetime_revenue.v > 100000)
    \/ Get(customer, "segment", Str("SMB"))
          \in {Str("High-Value"), Str("Enterprise")}

\* C9 (as claimed): for a record with lifetime revenue above 100000 or
\* segment High-Value or Enterprise the priority is one level above the
\* priority derived from the risk level.
C9_HighValueEscalates ==
    (Recommended /\ Scored /\ record.is_mapping /\ HighValue(record)) =>
        recommendation.priority = Escalate(analysis.risk_level)

\* C10: every recommendation, for each of the risk levels Low, Medium, High,
\* Critical and Unknown and also from the except branch, has a non-empty
\* recommended_actions sequence.
C10_ActionsNonEmpty ==
    Recommended => Len(recommendation.recommended_actions) > 0

\* the failure result of the analysis went through the except branch of
\* generate_recommendations
C10_Witness ==
    /\ Recommended
    /\ analysis.risk_level = "Unknown"
    /\ "error" \in DOMAIN recommendation

\* the actions generate_recommendations appended after those of the risk
\* level: the segment's pair, then the plan's pair if there is one
AppendedActions ==
    LET base == get_risk_based_recommendations(
                    analysis.risk_level,
                    analysis.composite_risk_score).recommended_actions
    IN  SubSeq(recommendation.recommended_actions, Len(base) + 1,
               Len(recommendation.recommended_actions))

RecommendedNormally == Recommended /\ "error" \notin DOMAIN recommendation

\* C11 (as claimed): the segment actions appended to the recommendation are
\* the executive-relationship pair for segment High-Value or Enterprise, the
\* business-review pair for Medium-Value and the self-service pair for SMB.
C11_SegmentActions ==
    RecommendedNormally =>
        LET segment == Get(record, "segment", Str("SMB"))
            appended == SubSeq(AppendedActions, 1, 2)
        IN  /\ segment \in {Str("High-Value"), Str("Enterprise")} =>
                  appended = << "Executive relationship building",
                                "Premium support access" >>
            /\ segment = Str("Medium-Value") =>
                  appended = << "Regular business reviews",
                                "Feature adoption training" >>
            /\ segment = Str("SMB") =>
                  appended = << "Self-service resources",
                                "Community engagement" >>

\* the time span a timeline string names
TimelineSpan(timeline) ==
    CASE timeline = "Immediate (24-48 hours)" -> "24-48 hours"
      [] timeline = "Urgent (1-2 weeks)" -> "1-2 weeks"
      [] timeline = "Standard (2-4 weeks)" -> "2-4 weeks"
      [] timeline = "Routine (1-2 months)" -> "1-2 months"
      [] timeline = "Ongoing" -> "ongoing"
      [] OTHER -> timeline

\* C12 (as claimed): timeline and expected outcome of every recommendation
\* are a function of the risk level alone: Critical gives 24-48 hours and
\* very low retention probability, High 1-2 weeks and low, Medium 2-4 weeks
\* and moderate, Low ongoing and high retention probability (outcomes
\* compared without regard to case).
C12_TimelineByLevel ==
    Recommended =>
        LET level == analysis.risk_level
            span == TimelineSpan(recommendation.timeline)
            outcome == recommendation.expected_outcome
        IN  /\ level = "Critical" =>
                  /\ span = "24-48 hours"
                  /\ outcome = "Very low retention probability"
            /\ level = "High" =>
                  /\ span = "1-2 weeks"
                  /\ outcome = "Low retention probability"
            /\ level = "Medium" =>
                  /\ span = "2-4 weeks"
                  /\ outcome = "Moderate retention probability"
            /\ level = "Low" =>
                  /\ span = "ongoing"
                  /\ outcome = "High retention probability"

\* C12 (amended): outside the except branch timeline and expected outcome
\* are a function of the risk level alone: Critical gives
\* "Immediate (24-48 hours)" and very low retention probability, High
\* "Urgent (1-2 weeks)" and low, Medium "Standard (2-4 weeks)" and moderate,
\* Low "Routine (1-2 months)" and high; the except branch gives "2-4 weeks"
\* and moderate retention probability whatever the level.
C12_TimelineByLevelRoutine ==
    /\ RecommendedNormally =>
          LET level == analysis.risk_level
              timeline == recommendation.timeline
              outcome == recommendation.expected_outcome
          IN  /\ level = "Critical" =>
                    /\ timeline = "Immediate (24-48 hours)"
                    /\ outcome = "Very low retention probability"
              /\ level = "High" =>
                    /\ timeline = "Urgent (1-2 weeks)"
                    /\ outcome = "Low retention probability"
              /\ level = "Medium" =>
                    /\ timeline = "Standard (2-4 weeks)"
                    /\ outcome = "Moderate retention probability"
              /\ level = "Low" =>
                    /\ timeline = "Routine (1-2 months)"
                    /\ outcome = "High retention probability"
    /\ (Recommended /\ ~RecommendedNormally) =>
          /\ recommendation.timeline = "2-4 weeks"
          /\ recommendation.expected_outcome = "Moderate retention probability"

\* a Low result was turned into a recommendation
C12_Witness ==
    /\ RecommendedNormally
    /\ analysis.risk_level = "Low"
    /\ recommendation.timeline = "Routine (1-2 months)"
    /\ recommendation.expected_outcome = "High retention probability"

(***************************************************************************)
(* Properties of RetentionEngine                                           *)
(***************************************************************************)
ClientAnalyzed == pc = "client_analyzed"
ClientScored == ClientAnalyzed /\ "error" \notin DOMAIN client_analysis

\* C2 (as claimed): the composite score of analyze_client_risk is capped:
\* it never exceeds 1.0.
C2_ClientScoreCapped ==
    ClientScored => FLe(client_analysis.composite_risk_score, F1_0)

(***************************************************************************)
(* Properties of the batch operations                                      *)
(***************************************************************************)
BatchProcessed == pc \in {"batch_processed", "summarized"}
Summarized == pc = "summarized"
ClientsProcessed == pc \in {"clients_processed", "clients_summarized"}
ClientsSummarized == pc = "clients_summarized"

\* C13 (as claimed): a batch of zero records gives an empty result, and its
\* summary is no error: it has total count 0 and exactly one insight, the
\* no-data message.
C13_EmptyBatchSummary ==
    (Summarized /\ customer_frame = EmptyFrame) =>
        /\ results = EmptyFrame
        /\ "error" \notin DOMAIN summary
        /\ summary.total_customers = 0
        /\ Len(summary.insights) = 1

\* scoring this record of the batch fails
ScoringFails(customer) ==
    "error" \in DOMAIN analyze_customer_risk(rules, thresholds, customer, now)

\* the records of the batch whose scoring succeeds, in batch order
ScoredRows ==
    SelectSeq(customer_frame.rows, LAMBDA customer : ~ScoringFails(customer))

SkippedCount == Len(customer_frame.rows) - Len(ScoredRows)

\* the insights _generate_insights can give a batch of at most n rows
LevelInsights(n) ==
    { ToString(k) \o " customers require immediate attention" : k \in 0..n }
    \cup
    { ToString(k) \o " customers need critical priority intervention" :
        k \in 0..n }
    \cup
    { "Overall customer health is concerning - consider proactive retention strategies",
      "Customer health is generally good - focus on growth and expansion" }

\* C14 (as claimed): a record whose scoring fails is left out of the
\* per-record results while every other record of the batch is processed,
\* and the summary insights report the skipped records.
C14_FailedRecordSkipped ==
    (BatchProcessed /\ customer_frame.is_frame) =>
        /\ Len(results.rows) = Len(ScoredRows)
        /\ \A i \in DOMAIN results.rows :
              LET scored == analyze_customer_risk(rules, thresholds,
                                                  ScoredRows[i], now)
              IN  /\ results.rows[i].risk_level = scored.risk_level
                  /\ results.rows[i].risk_score = scored.composite_risk_score
        /\ (Summarized /\ SkippedCount > 0) =>
              /\ "insights" \in DOMAIN summary
              /\ \E i \in DOMAIN summary.insights :
                    summary.insights[i]
                        \notin LevelInsights(Len(customer_frame.rows))

RECURSIVE SumOfCounts(_, _)
SumOfCounts(counts, keys) ==
    IF keys = {} THEN 0
    ELSE LET key == CHOOSE k \in keys : TRUE
         IN  counts[key] + SumOfCounts(counts, keys \ {key})

\* C15 (as claimed): the risk_distribution of the summary of a batch counts
\* only the levels Low, Medium, High and Critical, and its counts add up
\* to the number of records minus the skipped ones.
C15_DistributionCounts ==
    (Summarized /\ customer_frame.is_frame /\ customer_frame.rows # << >>) =>
        /\ "risk_distribution" \in DOMAIN summary
        /\ DOMAIN summary.risk_distribution
              \subseteq {"Low", "Medium", "High", "Critical"}
        /\ SumOfCounts(summary.risk_distribution,
                       DOMAIN summary.risk_distribution)
              = Len(customer_frame.rows) - SkippedCount

\* the insights of a summary; the summary of an empty result has none
InsightsOf(a_summary) ==
    IF "insights" \in DOMAIN a_summary THEN a_summary.insights ELSE << >>

\* among insights, the one reporting n rows of High or Critical risk level
\* is present exactly when n is their number and is positive, likewise the
\* one reporting n rows of Critical priority, and the first comes before
\* the second
InsightsConditional(rows, insights, attention, critical) ==
    LET N == Cardinality({ i \in DOMAIN rows :
                             rows[i].risk_level \in {"High", "Critical"} })
        K == Cardinality({ i \in DOMAIN rows :
                             rows[i].priority = "Critical" })
        At(text) == { i \in DOMAIN insights : insights[i] = text }
    IN  /\ \A n \in 0..Len(rows) :
              At(ToString(n) \o attention) # {} <=> (n = N /\ N > 0)
        /\ \A n \in 0..Len(rows) :
              At(ToString(n) \o critical) # {} <=> (n = K /\ K > 0)
        /\ \A i \in At(ToString(N) \o attention),
               j \in At(ToString(K) \o critical) : i < j

\* C16: in the summary of a batch the insight "N customers require
\* immediate attention" is present exactly when N, the number of High or
\* Critical rows, is positive; "N customers need critical priority
\* intervention" exactly when N, the number of rows of Critical priority,
\* is positive; the first precedes the second.  RetentionEngine does the
\* same with "clients" for "customers".
C16_InsightsOrdered ==
    /\ Summarized =>
          InsightsConditional(results.rows, InsightsOf(summary),
              " customers require immediate attention",
              " customers need critical priority intervention")
    /\ ClientsSummarized =>
          InsightsConditional(analysis_results.rows,
              InsightsOf(analysis_summary),
              " clients require immediate attention",
              " clients need critical priority intervention")

\* two rows at risk, one of them of Critical priority, and the insight on
\* the mean between the two counts
C16_Witness ==
    /\ Summarized
    /\ InsightsOf(summary) =
          << "2 customers require immediate attention",
             "Overall customer health is concerning - consider proactive retention strategies",
             "1 customers need critical priority intervention" >>

\* the segments the rows of the client batch carry
SegmentsCarried ==
    { client_frame.rows[i].client_segment.v :
        i \in { j \in DOMAIN client_frame.rows :
                  client_frame.rows[j].client_segment.t = "str" } }

\* the segments of the batch next to the risk scores of its results
ScoresBySegment ==
    [ i \in DOMAIN analysis_results.rows |->
        [ client_segment |-> client_frame.rows[i].client_segment,
          risk_score |-> analysis_results.rows[i].risk_score ] ]

\* C17 (as claimed): when a record of the batch carries a segment, the
\* summary of process_batch_analysis has an insight naming the segment of
\* the highest mean risk score; when none does, it has no segment insight.
C17_SegmentInsight ==
    (ClientsSummarized /\ client_frame.is_frame
       /\ client_frame.rows # << >>) =>
        LET insights == InsightsOf(analysis_summary)
        IN  /\ SegmentsCarried # {} =>
                  \E i \in DOMAIN insights :
                      insights[i] = "Highest risk segment: "
                          \o highest_risk_segment(ScoresBySegment)
            /\ SegmentsCarried = {} =>
                  \A i \in DOMAIN insights, k \in DOMAIN SegmentOrder :
                      insights[i] # "Highest risk segment: "
                                      \o SegmentOrder[k]

(***************************************************************************)
(* Properties of the engines over all their calls                          *)
(***************************************************************************)
\* a result without its analysis_timestamp
WithoutTimestamp(result) ==
    [ key \in DOMAIN result \ {"analysis_timestamp"} |-> result[key] ]

\* C18: the result of analyze_customer_risk, its analysis_timestamp left
\* out, and the result of generate_recommendations depend on nothing but
\* health, engagement, churn label, days, segment and plan of the record:
\* whatever calls came before and whenever the call is made, they are the
\* results a new engine gives, at any time, any record that agrees with
\* the record on these fields.
C18_Deterministic ==
    /\ JustAnalyzed =>
          \A t \in 0..MaxClock, revenue \in RevenueValues :
              WithoutTimestamp(
                  analyze_customer_risk(initialize_rules,
                      initialize_thresholds,
                      [record EXCEPT !.lifetime_revenue = revenue], t))
                = WithoutTimestamp(analysis)
    /\ Recommended =>
          \A revenue \in RevenueValues :
              generate_recommendations(analysis,
                  [record EXCEPT !.lifetime_revenue = revenue])
                = recommendation

\* a record was scored and given its recommendation at a later reading of
\* the clock than the construction of the engine
C18_Witness ==
    /\ Recommended /\ Scored /\ RecommendedNormally
    /\ now = MaxClock
    /\ analysis.analysis_timestamp = MaxClock

\* the tables are those of construction, and what a call added to its
\* result comes from that call alone
TablesAsConstructed ==
    /\ rules = initialize_rules
    /\ thresholds = initialize_thresholds
    /\ retention_rules = retention_initialize_rules
    /\ retention_thresholds = retention_initialize_thresholds
    /\ strategies = initialize_strategies
    /\ ClientScored =>
          \A i \in DOMAIN client_analysis.recommendations :
              LET strategy == client_analysis.recommendations[i]
              IN  \/ strategy = GeneralMonitoring
                  \/ \E j \in DOMAIN client_analysis.risk_factors :
                        /\ strategy.trigger_factor
                              = client_analysis.risk_factors[j].name
                        /\ strategy.risk_weight
                              = client_analysis.risk_factors[j].weight
    /\ RecommendedNormally =>
          AppendedActions = get_customer_specific_recommendations(record)

\* a call leaves the results of earlier calls and the batch that are passed
\* to it as they were
ArgumentsKept ==
    /\ (pc = "analyzed" /\ pc' = "recommended") => analysis' = analysis
    /\ (pc = "batch_processed" /\ pc' = "summarized") =>
          /\ customer_frame' = customer_frame
          /\ results' = results
    /\ (pc = "clients_processed" /\ pc' = "clients_summarized") =>
          /\ client_frame' = client_frame
          /\ analysis_results' = analysis_results

\* C19: after any sequence of calls on either engine the rules, thresholds
\* and strategies tables are those of construction; the trigger_factor and
\* risk_weight of every recommendation are those of a risk factor of its
\* own call, and the actions appended to a recommendation are those of the
\* record of its own call; no call changes the results or the batch passed
\* to it.
C19_TablesUnchanged == []TablesAsConstructed /\ [][ArgumentsKept]_vars

\* a client was given four strategies, each with its trigger_factor, at a
\* later reading of the clock than the construction of the engine
C19_Witness ==
    /\ ClientScored
    /\ now = MaxClock
    /\ Len(client_analysis.recommendations) = 4
    /\ client_analysis.recommendations[1].trigger_factor = "health_score"

FourLevels == {"Low", "Medium", "High", "Critical"}

\* C20 (as claimed): the risk level of every result of analyze_customer_risk
\* and of analyze_client_risk, the failure results too, is one of Low,
\* Medium, High, Critical.
C20_LevelInFourLevels ==
    /\ Analyzed => analysis.risk_level \in FourLevels
    /\ ClientAnalyzed => client_analysis.risk_level \in FourLevels

(***************************************************************************)
(* Further properties of RuleBasedDecisionEngine                           *)
(***************************************************************************)
\* C21 (as claimed): the confidence of every result of
\* analyze_customer_risk is High when the sum of the factor weights is
\* >= 0.8, Medium when it is >= 0.5, Low otherwise; so confidence is Low
\* exactly when the risk level is Low or Medium, and confidence High
\* implies risk level Critical.
C21_ConfidenceByWeight ==
    Analyzed =>
        LET total_weight == FSum(Values(analysis.risk_factors))
        IN  /\ analysis.confidence =
                  (IF FGe(total_weight, F0_8) THEN "High"
                   ELSE IF FGe(total_weight, F0_5) THEN "Medium"
                   ELSE "Low")
            /\ analysis.confidence = "Low"
                  <=> analysis.risk_level \in {"Low", "Medium"}
            /\ analysis.confidence = "High"
                  => analysis.risk_level = "Critical"

(***************************************************************************)
(* Properties of AURASettings                                              *)
(***************************************************************************)
Configured ==
    pc \in {"configured", "validated", "constructed"}
        /\ "ai_config" \in DOMAIN settings

\* the configured high risk threshold is not greater than the medium one
OutOfOrder ==
    /\ Configured
    /\ NumLe(settings.ai_config.risk_threshold_high,
             settings.ai_config.risk_threshold_medium)

\* C22 (as claimed): when the configured high risk threshold is not
\* greater than the medium one, validate_settings reports it in its errors
\* list, and no scorer is constructed with that configuration.
C22_OutOfOrderRejected ==
    OutOfOrder =>
        /\ pc = "validated" =>
              \E i \in DOMAIN validation_results.errors :
                  validation_results.errors[i]
                      = "Risk threshold high should be greater than medium"
        /\ pc # "constructed"

(***************************************************************************)
(* Further properties of RetentionEngine                                   *)
(***************************************************************************)
\* the value analyze_client_risk reads for a key of the client
ClientValue(key, default) == Get(client, key, default)

\* C23 (as claimed): whenever analyze_client_risk returns risk level
\* Critical, its recommendations include the Immediate Intervention
\* strategy, with timeline 24-48 hours and outcome Prevent immediate churn.
C23_CriticalIntervenes ==
    (ClientScored /\ client_analysis.risk_level = "Critical") =>
        \E i \in DOMAIN client_analysis.recommendations :
            LET strategy == client_analysis.recommendations[i]
            IN  /\ strategy.name = "Immediate Intervention"
                /\ strategy.timeline = "24-48 hours"
                /\ strategy.expected_outcome = "Prevent immediate churn"

\* every weight of the risk factors is 0 (also when there is no factor)
AllZeroWeight(risk_factors) ==
    \A i \in DOMAIN risk_factors : risk_factors[i].weight = F0_0

\* C24: on the success path of analyze_client_risk the recommendations hold
\* at least one entry, every entry has a non-empty actions list, and when
\* all risk factors have weight 0 the list is exactly the single General
\* Monitoring strategy.
C24_NeverEmptyRecommendation ==
    ClientScored =>
        LET recommendations == client_analysis.recommendations
        IN  /\ Len(recommendations) >= 1
            /\ \A i \in DOMAIN recommendations :
                  Len(recommendations[i].actions) >= 1
            /\ AllZeroWeight(client_analysis.risk_factors) =>
                  /\ Len(recommendations) = 1
                  /\ recommendations[1].name = "General Monitoring"
                  /\ recommendations[1].timeline = "Ongoing"
                  /\ "trigger_factor" \notin DOMAIN recommendations[1]

\* a scored client whose risk factors all have weight 0
C24_Witness_AllZero ==
    /\ ClientScored
    /\ AllZeroWeight(client_analysis.risk_factors)
    /\ client_analysis.recommendations = << GeneralMonitoring >>

\* the priority the risk score alone gives
BasePriority(risk_score) ==
    IF FGe(risk_score, F0_9) THEN "Critical"
    ELSE IF FGe(risk_score, F0_7) THEN "High"
    ELSE IF FGe(risk_score, F0_5) THEN "Medium"
    ELSE "Low"

\* C25 (as claimed): with total lifetime revenue above 100000 the priority
\* is one level above the base priority of the risk score (Low to Medium,
\* Medium to High, High to Critical, Critical stays); at or below 100000 it
\* is the base priority.
C25_RevenueEscalates ==
    ClientScored =>
        LET base == BasePriority(client_analysis.composite_risk_score)
            client_value == ClientValue("total_lifetime_revenue", Num(0))
        IN  client_analysis.priority =
                (IF client_value.t = "num" /\ client_value.v > 100000
                 THEN Escalate(base) ELSE base)

\* the recommendations that carry a trigger factor
Triggered(recommendations) ==
    SelectSeq(recommendations, LAMBDA r : "trigger_factor" \in DOMAIN r)

\* the position of the factor of this name in risk_factors, 0 if none
PositionOf(risk_factors, name) ==
    IF \E j \in DOMAIN risk_factors : risk_factors[j].name = name
    THEN CHOOSE j \in DOMAIN risk_factors : risk_factors[j].name = name
    ELSE 0

\* C27 (as claimed): every risk factor of weight above 0.2 produces
\* exactly one recommendation with that factor as trigger_factor and its
\* weight as risk_weight, factors of weight 0.2 or less produce none, and
\* the recommendations are in order of non-increasing risk_weight, ties in
\* the order the factors were evaluated.
C27_OnePerSignificantFactor ==
    ClientScored =>
        LET risk_factors == client_analysis.risk_factors
            triggered == Triggered(client_analysis.recommendations)
        IN  /\ \A j \in DOMAIN risk_factors :
                  Cardinality({ i \in DOMAIN triggered :
                      /\ triggered[i].trigger_factor = risk_factors[j].name
                      /\ triggered[i].risk_weight = risk_factors[j].weight })
                    = (IF FGt(risk_factors[j].weight, F0_2) THEN 1 ELSE 0)
            /\ \A i \in DOMAIN triggered :
                  PositionOf(risk_factors, triggered[i].trigger_factor) > 0
            /\ \A i, k \in DOMAIN triggered :
                  i < k =>
                    /\ FGe(triggered[i].risk_weight, triggered[k].risk_weight)
                    /\ triggered[i].risk_weight = triggered[k].risk_weight
                         => PositionOf(risk_factors,
                                       triggered[i].trigger_factor)
                              < PositionOf(risk_factors,
                                           triggered[k].trigger_factor)

\* the weight the rule table names for an NPS score from 0 to 10
NpsWeight(nps) ==
    IF nps <= 6 THEN F0_3 ELSE IF nps <= 8 THEN F0_1 ELSE F0_0

\* C28 (as claimed): every integer NPS score from 0 to 10 gets exactly one
\* nps_score entry in the risk factors, with weight 0.3 for 0 to 6, 0.1 for
\* 7 to 8 and 0.0 for 9 to 10.
C28_NpsBuckets ==
    ClientScored =>
        LET nps_score == ClientValue("nps_score", Num(7))
            risk_factors == client_analysis.risk_factors
        IN  (nps_score.t = "num" /\ nps_score.v \in 0..10) =>
                /\ Cardinality({ j \in DOMAIN risk_factors :
                        risk_factors[j].name = "nps_score" }) = 1
                /\ \A j \in DOMAIN risk_factors :
                      risk_factors[j].name = "nps_score"
                          => risk_factors[j].weight = NpsWeight(nps_score.v)

(***************************************************************************)
(* The risk factors of RuleBasedDecisionEngine                             *)
(***************************************************************************)
\* the names of the risk factors, in their order
FactorNames(risk_factors) ==
    [ i \in DOMAIN risk_factors |-> risk_factors[i].name ]

\* C26 (as claimed): the risk factors analyze_customer_risk returns hold
\* exactly four entries, for health score, engagement, churn label and days
\* since engagement, in that order.
C26_FourFactors ==
    Scored =>
        FactorNames(analysis.risk_factors)
            = << "health_score", "engagement", "churn_risk",
                 "days_since_engagement" >>

(***************************************************************************)
(* The two batch scorers                                                   *)
(***************************************************************************)
BothProcessed == pc = "both_processed"

\* C29 (as claimed): on the same records, all with fields in their
\* domains, process_customer_batch of aura_api and of
\* RuleBasedDecisionEngine give every record the same risk score, the same
\* risk level and the same priority.
C29_ScorersAgree ==
    BothProcessed =>
        /\ Len(api_results.results_df.rows) = Len(results.rows)
        /\ \A i \in DOMAIN results.rows :
              LET inline == api_results.results_df.rows[i]
                  engine == results.rows[i]
              IN  /\ inline.risk_score = engine.risk_score
                  /\ inline.risk_level = engine.risk_level
                  /\ inline.priority = engine.priority

\* C30 (as claimed): process_customer_batch returns for a non-empty
\* DataFrame exactly one row per input row, in input order, each with the
\* risk level and score analyze_customer_risk gives that row alone and the
\* priority generate_recommendations gives it.
C30_OneRowPerRecord ==
    (BatchProcessed /\ customer_frame.is_frame) =>
        /\ Len(results.rows) = Len(customer_frame.rows)
        /\ \A i \in DOMAIN results.rows :
              LET alone == analyze_customer_risk(rules, thresholds,
                               customer_frame.rows[i], now)
              IN  /\ results.rows[i].risk_level = alone.risk_level
                  /\ results.rows[i].risk_score = alone.composite_risk_score
                  /\ results.rows[i].priority =
                        generate_recommendations(alone,
                            customer_frame.rows[i]).priority

====
